---------------------------- MODULE Spec2Model ----------------------------
(***************************************************************************)
(* Chat-list pagination and search of view-chats.                          *)
(*                                                                         *)
(* The message store is the chat_messages table (server/sql/schema.sql);   *)
(* GET /api/chats/list (server/src/routes/chats.ts) aggregates it into one *)
(* row per session, filters, orders and pages it with a keyset cursor.     *)
(*                                                                         *)
(* Text is a sequence of one-character strings.  A stored timestamp is an   *)
(* integer number of ticks, the resolution of TIMESTAMPTZ; a JavaScript     *)
(* Date and the ISO string made from it have millisecond resolution, one    *)
(* millisecond being TicksPerMs ticks.                                      *)
(***************************************************************************)
EXTENDS Integers, Sequences, FiniteSets, Bags, TLC

(***************************************************************************)
(* Bounds of the model                                                     *)
(***************************************************************************)
MaxMessages == 3      \* messages the store may hold
MaxLimit == 2         \* numeric limit parameters are 1..MaxLimit

(***************************************************************************)
(* Program constants                                                       *)
(***************************************************************************)
LIST_DEFAULT_LIMIT == 50
LIST_MAX_LIMIT == 200
MIN_SEARCH_LENGTH == 3

Null == -1            \* SQL NULL / JavaScript null in a timestamp position

\* TIMESTAMPTZ ticks per JavaScript millisecond: PostgreSQL keeps microseconds,
\* 1000 to the millisecond; the model scales the ratio down, keeping room for
\* a tick strictly between the start of a millisecond and its last tick
TicksPerMs == 3

\* stored timestamps: one whole millisecond and the first tick of the next
Times == 0..TicksPerMs
Millis == {t \div TicksPerMs : t \in Times}

(***************************************************************************)
(* Text                                                                    *)
(***************************************************************************)
Code(c) ==
  CASE c = " " -> 32 [] c = "%" -> 37 [] c = "A" -> 65 [] c = "B" -> 66
    [] c = "C" -> 67 [] c = "\\" -> 92 [] c = "^" -> 94 [] c = "_" -> 95 [] c = "a" -> 97
    [] c = "b" -> 98 [] c = "c" -> 99 [] c = "d" -> 100 [] c = "e" -> 101
    [] c = "f" -> 102 [] c = "x" -> 120

Lower(c) ==
  CASE c = "A" -> "a" [] c = "B" -> "b" [] c = "C" -> "c" [] OTHER -> c

\* session_id < $n and ORDER BY session_id: text comparison, character by
\* character.
RECURSIVE TextLess(_, _)
TextLess(s, t) ==
  IF t = <<>> THEN FALSE
  ELSE IF s = <<>> THEN TRUE
  ELSE IF Head(s) # Head(t) THEN Code(Head(s)) < Code(Head(t))
  ELSE TextLess(Tail(s), Tail(t))

RECURSIVE TrimStart(_)
TrimStart(s) ==
  IF s # <<>> /\ Head(s) = " " THEN TrimStart(Tail(s)) ELSE s

RECURSIVE TrimEnd(_)
TrimEnd(s) ==
  IF s # <<>> /\ s[Len(s)] = " " THEN TrimEnd(SubSeq(s, 1, Len(s) - 1)) ELSE s

\* String.prototype.trim
Trim(s) == TrimEnd(TrimStart(s))

\* input.replace(/([_%\\])/g, '\\$1')
RECURSIVE escapeForILike(_)
escapeForILike(input) ==
  IF input = <<>> THEN <<>>
  ELSE IF Head(input) \in {"_", "%", "\\"}
       THEN <<"\\", Head(input)>> \o escapeForILike(Tail(input))
       ELSE <<Head(input)>> \o escapeForILike(Tail(input))

\* session_id ILIKE pattern: % matches any run of characters, _ any one
\* character, backslash makes the next pattern character literal; letters
\* compare without regard to case.
RECURSIVE ILike(_, _)
ILike(str, pat) ==
  IF pat = <<>> THEN str = <<>>
  ELSE IF Head(pat) = "%"
       THEN ILike(str, Tail(pat)) \/ (str # <<>> /\ ILike(Tail(str), pat))
  ELSE IF Head(pat) = "_"
       THEN str # <<>> /\ ILike(Tail(str), Tail(pat))
  ELSE IF Head(pat) = "\\"
       THEN /\ Len(pat) >= 2
            /\ str # <<>>
            /\ Lower(Head(str)) = Lower(pat[2])
            /\ ILike(Tail(str), Tail(Tail(pat)))
  ELSE /\ str # <<>>
       /\ Lower(Head(str)) = Lower(Head(pat))
       /\ ILike(Tail(str), Tail(pat))

(***************************************************************************)
(* Request parameters                                                      *)
(***************************************************************************)
\* a query parameter that is a string, or undefined
Str(t) == [defined |-> TRUE, text |-> t]
Undefined == [defined |-> FALSE, text |-> <<>>]

IsDigit(c) == c \in {"0", "1", "2", "3", "4", "5", "6", "7", "8", "9"}

DigitValue(c) ==
  CASE c = "0" -> 0 [] c = "1" -> 1 [] c = "2" -> 2 [] c = "3" -> 3
    [] c = "4" -> 4 [] c = "5" -> 5 [] c = "6" -> 6 [] c = "7" -> 7
    [] c = "8" -> 8 [] c = "9" -> 9

DigitChar(d) ==
  CASE d = 0 -> "0" [] d = 1 -> "1" [] d = 2 -> "2" [] d = 3 -> "3"
    [] d = 4 -> "4" [] d = 5 -> "5" [] d = 6 -> "6" [] d = 7 -> "7"
    [] d = 8 -> "8" [] d = 9 -> "9"

\* the number read from the leading digits of s, continuing from acc
RECURSIVE ParseDigits(_, _)
ParseDigits(s, acc) ==
  IF s = <<>> \/ ~IsDigit(Head(s)) THEN acc
  ELSE ParseDigits(Tail(s), acc * 10 + DigitValue(Head(s)))

\* Number.parseInt(text, 10): leading blanks are skipped, a sign is read,
\* then digits up to the first character that is none; NaN (finite FALSE)
\* when there is no digit to read
parseInt(text) ==
  LET s == TrimStart(text)
      signed == s # <<>> /\ Head(s) \in {"-", "+"}
      body == IF signed THEN Tail(s) ELSE s
  IN IF body = <<>> \/ ~IsDigit(Head(body))
     THEN [finite |-> FALSE, n |-> 0]
     ELSE [finite |-> TRUE,
           n |-> IF signed /\ Head(s) = "-"
                 THEN 0 - ParseDigits(body, 0) ELSE ParseDigits(body, 0)]

\* the decimal digits of a natural number
RECURSIVE Decimal(_)
Decimal(n) ==
  IF n < 10 THEN <<DigitChar(n)>>
  ELSE Decimal(n \div 10) \o <<DigitChar(n % 10)>>

\* String(n)
NumberText(n) == IF n < 0 THEN <<"-">> \o Decimal(0 - n) ELSE Decimal(n)

\* req.query.limit: undefined (or no string), or the text String(n) that
\* fetchChatList sends for the number n
LimitParam(n) == Str(NumberText(n))
NoLimit == Undefined

NaN == -2             \* getTime() of an invalid Date

\* req.query.cursorLastMessageAt: undefined, or the ISO string of the Date
\* ms, or a string that is no date (the empty string among them)
IsoParam(ms) == [defined |-> TRUE, ms |-> ms]
NoIso == [defined |-> FALSE, ms |-> 0]
InvalidIso == [defined |-> TRUE, ms |-> NaN]

\* ChatListCursor | undefined
Cursor(ms, sid) == [defined |-> TRUE, lastMessageAt |-> ms, sessionId |-> sid]
NoCursor == [defined |-> FALSE, lastMessageAt |-> 0, sessionId |-> <<>>]

Min(a, b) == IF a < b THEN a ELSE b
Max(a, b) == IF a > b THEN a ELSE b

\* parseListLimit with a text that is no number read as the least limit
parseListLimitNaNAsMinimum(rawLimit) ==
  IF ~rawLimit.defined THEN LIST_DEFAULT_LIMIT
  ELSE LET parsed == parseInt(rawLimit.text)
       IN IF ~parsed.finite THEN 1
          ELSE Min(Max(parsed.n, 1), LIST_MAX_LIMIT)

parseListLimit(rawLimit) ==
  IF ~rawLimit.defined THEN LIST_DEFAULT_LIMIT
  ELSE LET parsed == parseInt(rawLimit.text)
       IN IF ~parsed.finite THEN LIST_DEFAULT_LIMIT
          ELSE Min(Max(parsed.n, 1), LIST_MAX_LIMIT)

\* new Date(value), undefined when value is missing
tryParseIsoDate(value) ==
  IF ~value.defined THEN [defined |-> FALSE, ms |-> 0]
  ELSE IF value.ms = NaN THEN [defined |-> FALSE, ms |-> 0]
  ELSE [defined |-> TRUE, ms |-> value.ms]

\* a Date read from a TIMESTAMPTZ column keeps whole milliseconds only
ToDate(ts) == IF ts = Null THEN Null ELSE ts \div TicksPerMs

\* a Date bound as a TIMESTAMPTZ parameter: cursorDate.toISOString()
ToTimestamp(ms) == ms * TicksPerMs

normalizeCount(value) == IF value \in Nat THEN value ELSE 0

(***************************************************************************)
(* The list query                                                          *)
(***************************************************************************)
\* rows of the table that pass WHERE session_id ILIKE $1
WhereRows(st, search) ==
  {m \in BagToSet(st) :
     search.defined => ILike(m.sessionId, escapeForILike(search.text) \o <<"%">>)}

RECURSIVE SumCopies(_, _)
SumCopies(st, rows) ==
  IF rows = {} THEN 0
  ELSE LET m == CHOOSE x \in rows : TRUE
       IN CopiesIn(m, st) + SumCopies(st, rows \ {m})

RECURSIVE MaxOf(_)
MaxOf(S) ==
  IF S = {} THEN Null
  ELSE LET x == CHOOSE y \in S : TRUE
       IN Max(x, MaxOf(S \ {x}))

\* session_stats with COUNT(DISTINCT created_at) in place of COUNT(*)
SessionStatsCountDistinct(st, search) ==
  LET rows == WhereRows(st, search)
  IN {[session_id |-> s,
       message_count |-> Cardinality({m \in rows : m.sessionId = s}),
       last_message_at |->
         MaxOf({m.createdAt : m \in {r \in rows : r.sessionId = s}} \ {Null})]
      : s \in {m.sessionId : m \in rows}}

\* WITH session_stats AS (SELECT session_id, COUNT(*), MAX(created_at) ...
\* GROUP BY session_id)
SessionStats(st, search) ==
  LET rows == WhereRows(st, search)
  IN {[session_id |-> s,
       message_count |-> SumCopies(st, {m \in rows : m.sessionId = s}),
       last_message_at |->
         MaxOf({m.createdAt : m \in {r \in rows : r.sessionId = s}} \ {Null})]
      : s \in {m.sessionId : m \in rows}}

\* the cursor clause without its tie-break on session_id
CursorClauseTimestampOnly(row, cursorDate, cursorSessionId) ==
  IF ~cursorDate.defined THEN TRUE
  ELSE /\ row.last_message_at # Null
       /\ row.last_message_at < ToTimestamp(cursorDate.ms)

\* the cursor clause put in only when timestamp and session id are both given
CursorClauseNeedsBoth(row, cursorDate, cursorSessionId) ==
  IF ~cursorDate.defined THEN TRUE
  ELSE IF cursorSessionId.defined /\ cursorSessionId.text # <<>>
       THEN /\ row.last_message_at # Null
            /\ \/ row.last_message_at < ToTimestamp(cursorDate.ms)
               \/ /\ row.last_message_at = ToTimestamp(cursorDate.ms)
                  /\ TextLess(row.session_id, cursorSessionId.text)
       ELSE TRUE

\* the cursor clause with the cursor's own position let through
CursorClauseInclusive(row, cursorDate, cursorSessionId) ==
  IF ~cursorDate.defined THEN TRUE
  ELSE /\ row.last_message_at # Null
       /\ row.last_message_at <= ToTimestamp(cursorDate.ms)

\* WHERE 1=1 ${cursorClause}; a comparison with NULL is not true
CursorClause(row, cursorDate, cursorSessionId) ==
  IF ~cursorDate.defined THEN TRUE
  ELSE IF cursorSessionId.defined /\ cursorSessionId.text # <<>>
       THEN /\ row.last_message_at # Null
            /\ \/ row.last_message_at < ToTimestamp(cursorDate.ms)
               \/ /\ row.last_message_at = ToTimestamp(cursorDate.ms)
                  /\ TextLess(row.session_id, cursorSessionId.text)
       ELSE /\ row.last_message_at # Null
            /\ row.last_message_at < ToTimestamp(cursorDate.ms)

\* ORDER BY last_message_at DESC NULLS LAST, session_id ASC
OrderBeforeIdsAscending(r1, r2) ==
  \/ r1.last_message_at # Null /\ r2.last_message_at = Null
  \/ /\ r1.last_message_at # Null /\ r2.last_message_at # Null
     /\ r1.last_message_at > r2.last_message_at
  \/ /\ r1.last_message_at = r2.last_message_at
     /\ TextLess(r1.session_id, r2.session_id)

\* ORDER BY last_message_at DESC NULLS LAST, with no second sort key
OrderBeforeTimestampOnly(r1, r2) ==
  \/ r1.last_message_at # Null /\ r2.last_message_at = Null
  \/ /\ r1.last_message_at # Null /\ r2.last_message_at # Null
     /\ r1.last_message_at > r2.last_message_at

\* ORDER BY last_message_at DESC NULLS LAST, session_id DESC: r1 sorts
\* strictly before r2
OrderBefore(r1, r2) ==
  \/ r1.last_message_at # Null /\ r2.last_message_at = Null
  \/ /\ r1.last_message_at # Null /\ r2.last_message_at # Null
     /\ r1.last_message_at > r2.last_message_at
  \/ /\ r1.last_message_at = r2.last_message_at
     /\ TextLess(r2.session_id, r1.session_id)

\* every order in which the database may deliver the rows: rows that the
\* ORDER BY does not separate come in any order
RECURSIVE Orderings(_)
Orderings(rows) ==
  IF rows = {} THEN {<<>>}
  ELSE UNION {{<<r>> \o rest : rest \in Orderings(rows \ {r})}
              : r \in {x \in rows : \A y \in rows : ~OrderBefore(y, x)}}

\* the result sets the query may return
QueryResults(st, search, cursorDate, cursorSessionId, limit) ==
  LET rows == {r \in SessionStats(st, search) :
                 CursorClause(r, cursorDate, cursorSessionId)}
  IN {SubSeq(ord, 1, Min(limit, Len(ord))) : ord \in Orderings(rows)}

ToItem(row) ==
  [sessionId |-> row.session_id,
   lastMessageAt |-> ToDate(row.last_message_at),
   messageCount |-> normalizeCount(row.message_count)]

\* a nextCursor on every page that has an item
NextCursorOfAnyPage(items, limit) ==
  IF Len(items) >= 1 /\ items[Len(items)].lastMessageAt # Null
  THEN Cursor(items[Len(items)].lastMessageAt, items[Len(items)].sessionId)
  ELSE NoCursor

\* nextCursor of a full page made from its first item
NextCursorOfFirstItem(items, limit) ==
  IF Len(items) = limit /\ items[1].lastMessageAt # Null
  THEN Cursor(items[1].lastMessageAt, items[1].sessionId)
  ELSE NoCursor

\* nextCursor of a page
NextCursorOf(items, limit) ==
  IF Len(items) = limit /\ items[Len(items)].lastMessageAt # Null
  THEN Cursor(items[Len(items)].lastMessageAt, items[Len(items)].sessionId)
  ELSE NoCursor

\* the search the handler uses: trimmed, undefined when empty
EffectiveSearch(rawSearch) ==
  IF rawSearch.defined /\ Trim(rawSearch.text) # <<>>
  THEN Str(Trim(rawSearch.text))
  ELSE Undefined

\* the length test on the search as received, blanks and all
SearchTooShortUntrimmed(rawSearch) ==
  /\ rawSearch.defined
  /\ rawSearch.text # <<>>
  /\ Len(rawSearch.text) < MIN_SEARCH_LENGTH

\* search && search.length < MIN_SEARCH_LENGTH
SearchTooShort(rawSearch) ==
  LET search == EffectiveSearch(rawSearch)
  IN search.defined /\ Len(search.text) < MIN_SEARCH_LENGTH

BadRequest == [status |-> 400, items |-> <<>>, nextCursor |-> NoCursor, rows |-> <<>>]

\* router.get('/list'): the responses the handler may send
ListResponses(st, rawLimit, rawSearch, cursorLastMessageAt, cursorSessionId) ==
  LET limit == parseListLimit(rawLimit)
      search == EffectiveSearch(rawSearch)
  IN IF SearchTooShort(rawSearch)
     THEN {BadRequest}
     ELSE {LET items == [i \in 1..Len(rows) |-> ToItem(rows[i])]
           IN [status |-> 200, items |-> items,
               nextCursor |-> NextCursorOf(items, limit), rows |-> rows]
           : rows \in QueryResults(st, search,
                                   tryParseIsoDate(cursorLastMessageAt),
                                   cursorSessionId, limit)}

(***************************************************************************)
(* State                                                                   *)
(***************************************************************************)
VARIABLES
  store,   \* the chat_messages table: a bag of [sessionId, createdAt] rows
  req,     \* the latest list request
  resp,    \* the response to it
  hist,    \* what a caller following nextCursor has seen so far
  srv,     \* the HTTP request the server is working on, step by step
  settings, \* the visitors_settings table: the session ids whose type is 'sales'
  ui,       \* the state of the web client: React state, requests in flight
  proc      \* the server process between a shutdown signal and its exit

vars == <<store, req, resp, hist, srv, settings, ui, proc>>

SessionIds ==
  {<<"a", "b", "_", "c">>, <<"A", "B", "_">>, <<"a", "b", "\\", "%">>}

\* session ids a caller puts into a cursor of its own making; no message is
\* ever stored under them
ProbeIds == {<<"a", "b", "^">>}

RawLimits == {NoLimit} \cup {LimitParam(n) : n \in 1..MaxLimit}

RawSearches ==
  {Undefined, Str(<<"a", "b", "_">>), Str(<<"A", "B", "\\", "%">>),
   Str(<<" ", "a", "b", "%", " ">>)}

Message(s, t) == [sessionId |-> s, createdAt |-> t]

NoRequest ==
  [sent |-> FALSE, kind |-> "none", limit |-> NoLimit, search |-> Undefined,
   cursorLastMessageAt |-> NoIso, cursorSessionId |-> Undefined]

Request(kind, rawLimit, rawSearch, cLma, cSid) ==
  [sent |-> TRUE, kind |-> kind, limit |-> rawLimit, search |-> rawSearch,
   cursorLastMessageAt |-> cLma, cursorSessionId |-> cSid]

NoResponse == [status |-> 0, items |-> <<>>, nextCursor |-> NoCursor]

Response(r) == [status |-> r.status, items |-> r.items, nextCursor |-> r.nextCursor]

\* the stored key of a session: MAX(created_at) over its messages, and its id
Key(ts, sid) == [defined |-> TRUE, ts |-> ts, sid |-> sid]
NoKey == [defined |-> FALSE, ts |-> 0, sid |-> <<>>]

\* the stored key of the last row of a page
LastKey(rows) ==
  IF rows = <<>> THEN NoKey
  ELSE Key(rows[Len(rows)].last_message_at, rows[Len(rows)].session_id)

NoHistory ==
  [pages |-> <<>>, fromStart |-> FALSE, fresh |-> FALSE, fixed |-> FALSE,
   boundary |-> NoKey, appends |-> "none",
   prevBoundary |-> NoKey, crossed |-> "none", requests |-> 0]

\* query parameters and route parameter of a request to /api/chats
Params(limit, search, cLma, cSid, sessionId) ==
  [limit |-> limit, search |-> search, cursorLastMessageAt |-> cLma,
   cursorSessionId |-> cSid, sessionId |-> sessionId]
NoParams == Params(Undefined, Undefined, NoIso, Undefined, Undefined)

\* what Google's tokeninfo endpoint answered for the token of the request
NoTokenInfo ==
  [asked |-> FALSE, ok |-> FALSE, aud |-> <<>>, email_verified |-> Undefined,
   email |-> Undefined]
TokenInfo(aud, email_verified, email) ==
  [asked |-> TRUE, ok |-> TRUE, aud |-> aud, email_verified |-> email_verified,
   email |-> email]
\* the fetch threw, or the endpoint answered with a status that is not ok
TokenRefused ==
  [asked |-> TRUE, ok |-> FALSE, aud |-> <<>>, email_verified |-> Undefined,
   email |-> Undefined]

\* no web client is open
NoClient == [open |-> FALSE]

\* the server process has received no signal
Serving == [signals |-> <<>>]

\* no request in the server
Idle ==
  [pc |-> "idle", route |-> "none", authorization |-> Undefined,
   params |-> NoParams, tokeninfo |-> NoTokenInfo, handler |-> 0,
   queries |-> 0, failed |-> FALSE, responses |-> 0, status |-> 0,
   body |-> <<>>, nextCursor |-> NoCursor]

Init ==
  /\ store = EmptyBag
  /\ req = NoRequest
  /\ resp = NoResponse
  /\ hist = NoHistory
  /\ srv = Idle
  /\ settings = {}
  /\ proc = Serving
  /\ ui = NoClient

\* MAX(created_at) of session s in st
LastMessageAt(st, s) ==
  MaxOf({m.createdAt : m \in {r \in BagToSet(st) : r.sessionId = s}} \ {Null})

\* canonical order on stored keys: k1 strictly before k2
KeyBefore(k1, k2) ==
  \/ k1.ts # Null /\ k2.ts = Null
  \/ k1.ts # Null /\ k2.ts # Null /\ k1.ts > k2.ts
  \/ k1.ts = k2.ts /\ TextLess(k2.sid, k1.sid)

\* A writer inserts a row into chat_messages (the table only grows).  The
\* observation follows a traversal from the first page across inserts while it
\* has a nextCursor to continue with; any other response is dropped from the
\* observation once the table has moved on, and so is the answer to the
\* request the server has finished.
InsertMessage(s, t) ==
  /\ BagCardinality(store) < MaxMessages
  /\ store' = store (+) SetToBag({Message(s, t)})
  /\ IF resp.nextCursor.defined /\ hist.fromStart
     THEN /\ hist' = [hist EXCEPT
               !.fresh = FALSE,
               !.fixed = FALSE,
               !.appends =
                 IF /\ hist.appends # "other"
                    /\ KeyBefore(hist.boundary, Key(LastMessageAt(store', s), s))
                 THEN "after" ELSE "other"]
          /\ UNCHANGED <<req, resp>>
     ELSE /\ req' = NoRequest
          /\ resp' = NoResponse
          /\ hist' = NoHistory
  /\ srv' = IF srv.pc = "done" THEN Idle ELSE srv
  /\ UNCHANGED <<settings, ui, proc>>

\* GET /api/chats/list without a cursor
FirstPage(rawLimit, rawSearch) ==
  \E r \in ListResponses(store, rawLimit, rawSearch, NoIso, Undefined) :
    /\ req' = Request("first", rawLimit, rawSearch, NoIso, Undefined)
    /\ resp' = Response(r)
    /\ hist' = [pages |-> r.items, fromStart |-> TRUE, fresh |-> TRUE,
                fixed |-> TRUE, boundary |-> LastKey(r.rows),
                appends |-> "none", prevBoundary |-> NoKey, crossed |-> "none",
                requests |-> 1]
    /\ UNCHANGED <<store, srv, settings, ui, proc>>

\* fetchChatList: the query parameters made from a cursor
CursorDateParam(cursor) == IsoParam(cursor.lastMessageAt)
CursorIdParam(cursor) ==
  IF cursor.sessionId # <<>> THEN Str(cursor.sessionId) ELSE Undefined

\* GET /api/chats/list with the nextCursor of the latest response and the
\* same limit and search
NextPage ==
  /\ req.sent
  /\ resp.status = 200
  /\ resp.nextCursor.defined
  /\ \E r \in ListResponses(store, req.limit, req.search,
                            CursorDateParam(resp.nextCursor),
                            CursorIdParam(resp.nextCursor)) :
       /\ req' = Request("next", req.limit, req.search,
                         CursorDateParam(resp.nextCursor),
                         CursorIdParam(resp.nextCursor))
       /\ resp' = Response(r)
       /\ hist' = [pages |-> hist.pages \o r.items,
                   fromStart |-> hist.fromStart, fresh |-> TRUE,
                   fixed |-> hist.fixed, boundary |-> LastKey(r.rows),
                   appends |-> "none", prevBoundary |-> hist.boundary,
                   crossed |-> hist.appends, requests |-> hist.requests + 1]
  /\ UNCHANGED <<store, srv, settings, ui, proc>>

\* GET /api/chats/list with the limit and search of the latest request and a
\* cursor of the caller's own making
Resume(ms, sid) ==
  /\ req.sent
  /\ \E r \in ListResponses(store, req.limit, req.search, IsoParam(ms), Str(sid)) :
    /\ req' = Request("resume", req.limit, req.search, IsoParam(ms), Str(sid))
    /\ resp' = Response(r)
    /\ hist' = [pages |-> r.items, fromStart |-> FALSE, fresh |-> TRUE,
                fixed |-> TRUE, boundary |-> LastKey(r.rows),
                appends |-> "none", prevBoundary |-> NoKey, crossed |-> "none",
                requests |-> 1]
    /\ UNCHANGED <<store, srv, settings, ui, proc>>

Next ==
  \/ \E s \in SessionIds, t \in Times : InsertMessage(s, t)
  \/ \E l \in RawLimits, q \in RawSearches : FirstPage(l, q)
  \/ NextPage
  \/ \E ms \in Millis, sid \in ProbeIds : Resume(ms, sid)

Spec == Init /\ [][Next]_vars

(***************************************************************************)
(* The server, one step at a time: requireAuth, the route handler, the      *)
(* store query it awaits, the error handler                                  *)
(***************************************************************************)
HasPrefix(s, p) == Len(p) <= Len(s) /\ SubSeq(s, 1, Len(p)) = p
HasSuffix(s, p) == Len(p) <= Len(s) /\ SubSeq(s, Len(s) - Len(p) + 1, Len(s)) = p
LowerText(s) == [i \in 1..Len(s) |-> Lower(s[i])]

Bearer == <<"B", "e", "a", "r", "e", "r", " ">>

\* header.slice('Bearer '.length).trim()
BearerToken(header) == Trim(SubSeq(header, Len(Bearer) + 1, Len(header)))

\* config.auth
GoogleClientId == <<"c", "i", "d">>
AllowedDomain == <<"b", ".", "c">>

\* res.status(status).json(...): the response goes out and the request is over
Send(state, status, body, nextCursor) ==
  [state EXCEPT !.pc = "done", !.responses = @ + 1, !.status = status,
                !.body = body, !.nextCursor = nextCursor]

\* a request to /api/chats enters the middleware chain
Receive(route, authorization, params) ==
  /\ srv.pc \in {"idle", "done"}
  /\ srv' = [Idle EXCEPT !.pc = "auth", !.route = route,
                         !.authorization = authorization, !.params = params]
  /\ UNCHANGED <<store, req, resp, hist, settings, ui, proc>>

\* requireAuth up to the call of Google's tokeninfo endpoint
RequireAuth ==
  /\ srv.pc = "auth"
  /\ LET header == srv.authorization
     IN IF ~header.defined \/ header.text = <<>> \/ ~HasPrefix(header.text, Bearer)
        THEN srv' = Send(srv, 401, <<>>, NoCursor)
        ELSE IF BearerToken(header.text) = <<>>
        THEN srv' = Send(srv, 401, <<>>, NoCursor)
        ELSE srv' = [srv EXCEPT !.pc = "verify"]
  /\ UNCHANGED <<store, req, resp, hist, settings, ui, proc>>

\* requireAuth without its test of email_verified
TokenAcceptedUnverifiedEmail(info) ==
  /\ info.ok
  /\ info.aud = GoogleClientId
  /\ info.email.defined
  /\ info.email.text # <<>>
  /\ HasSuffix(LowerText(info.email.text), <<"@">> \o AllowedDomain)

\* payload.aud, payload.email_verified and payload.email pass requireAuth
TokenAccepted(info) ==
  /\ info.ok
  /\ info.aud = GoogleClientId
  /\ info.email_verified = Str(<<"t", "r", "u", "e">>)
  /\ info.email.defined
  /\ info.email.text # <<>>
  /\ HasSuffix(LowerText(info.email.text), <<"@">> \o AllowedDomain)

\* requireAuth from the answer of verifyGoogleIdToken on: next() hands the
\* request to the route handler, anything thrown ends in the catch
TokenVerified(info) ==
  /\ srv.pc = "verify"
  /\ IF TokenAccepted(info)
     THEN srv' = [srv EXCEPT !.tokeninfo = info, !.pc = "handler",
                             !.handler = @ + 1]
     ELSE srv' = Send([srv EXCEPT !.tokeninfo = info], 401, <<>>, NoCursor)
  /\ UNCHANGED <<store, req, resp, hist, settings, ui, proc>>

\* router.get('/list') up to the awaited query
ListHandler ==
  /\ srv.pc = "handler"
  /\ srv.route = "list"
  /\ IF SearchTooShort(srv.params.search)
     THEN srv' = Send(srv, 400, <<>>, NoCursor)
     ELSE srv' = [srv EXCEPT !.pc = "query", !.queries = @ + 1]
  /\ UNCHANGED <<store, req, resp, hist, settings, ui, proc>>

\* router.get('/list') from the rows of the query on
ListQueryResolves ==
  /\ srv.pc = "query"
  /\ srv.route = "list"
  /\ \E r \in ListResponses(store, srv.params.limit, srv.params.search,
                            srv.params.cursorLastMessageAt,
                            srv.params.cursorSessionId) :
       srv' = Send(srv, r.status, r.items, r.nextCursor)
  /\ UNCHANGED <<store, req, resp, hist, settings, ui, proc>>

\* the awaited query rejects and the handler answers as for no rows
QueryRejectsAnswersEmpty ==
  /\ srv.pc = "query"
  /\ srv' = Send([srv EXCEPT !.failed = TRUE], 200, <<>>, NoCursor)
  /\ UNCHANGED <<store, req, resp, hist, settings, ui, proc>>

\* the awaited query rejects: catch (error) { next(error) }, and errorHandler
\* answers
QueryRejects ==
  /\ srv.pc = "query"
  /\ srv' = Send([srv EXCEPT !.failed = TRUE], 500, <<>>, NoCursor)
  /\ UNCHANGED <<store, req, resp, hist, settings, ui, proc>>

(***************************************************************************)
(* Notions of the specification                                            *)
(***************************************************************************)
\* the sessions of a store: those with at least one message
Sessions(st) == {m.sessionId : m \in BagToSet(st)}

\* the number of messages of session s
MessageCount(st, s) ==
  BagCardinality([m \in {x \in BagToSet(st) : x.sessionId = s} |-> CopiesIn(m, st)])

\* the greatest createdAt of session s, Null when it has none
MaxCreatedAt(st, s) ==
  LET T == {m.createdAt : m \in {x \in BagToSet(st) : x.sessionId = s}} \ {Null}
  IN IF T = {} THEN Null ELSE CHOOSE t \in T : \A u \in T : u <= t

\* id starts with prefix, letters compared without regard to case
StartsWith(id, prefix) ==
  /\ Len(prefix) <= Len(id)
  /\ \A i \in 1..Len(prefix) : Lower(id[i]) = Lower(prefix[i])

\* the sessions a search selects
Filtered(st, search) ==
  {s \in Sessions(st) : search.defined => StartsWith(s, search.text)}

\* the keys of the filtered sessions
Keys(st, search) == {Key(MaxCreatedAt(st, s), s) : s \in Filtered(st, search)}

\* a set of keys in canonical order
RECURSIVE Canonical(_)
Canonical(K) ==
  IF K = {} THEN <<>>
  ELSE LET k == CHOOSE x \in K : \A y \in K \ {x} : KeyBefore(x, y)
       IN <<k>> \o Canonical(K \ {k})

Take(seq, n) == SubSeq(seq, 1, Min(n, Len(seq)))

Ids(keys) == [i \in 1..Len(keys) |-> keys[i].sid]
ItemIds(items) == [i \in 1..Len(items) |-> items[i].sessionId]

\* the search and the limit the latest request asks for
ReqSearch == EffectiveSearch(req.search)
ReqLimit == parseListLimit(req.limit)

\* the latest response is a page computed from the store as it is now
Answered == req.sent /\ resp.status = 200 /\ hist.fresh

(***************************************************************************)
(* A table whose created_at column admits NULL: the handler reads             *)
(* last_message_at as Date | null, though the shipped schema says NOT NULL.   *)
(***************************************************************************)
NextNullable ==
  \/ Next
  \/ \E s \in SessionIds : InsertMessage(s, Null)

SpecNullable == Init /\ [][NextNullable]_vars

(***************************************************************************)
(* The scenario of the specification: sessions A (3 messages, last at T3), *)
(* B (1 message at T5) and C (2 messages, last at T5), T3 < T5, in a store  *)
(* that does not change.                                                    *)
(***************************************************************************)
SessionA == <<"A">>
SessionB == <<"B">>
SessionC == <<"C">>

ScenarioStore(t3, t5, a1, a2, c1) ==
  SetToBag({Message(SessionA, t3)}) (+) SetToBag({Message(SessionA, a1)})
    (+) SetToBag({Message(SessionA, a2)}) (+) SetToBag({Message(SessionB, t5)})
    (+) SetToBag({Message(SessionC, t5)}) (+) SetToBag({Message(SessionC, c1)})

InitScenario ==
  /\ store \in {ScenarioStore(t3, t5, a1, a2, c1) :
                  t3 \in Times, t5 \in Times, a1 \in Times, a2 \in Times,
                  c1 \in Times}
  /\ MaxCreatedAt(store, SessionA) < MaxCreatedAt(store, SessionB)
  /\ MaxCreatedAt(store, SessionC) = MaxCreatedAt(store, SessionB)
  /\ req = NoRequest
  /\ resp = NoResponse
  /\ hist = NoHistory
  /\ srv = Idle
  /\ settings = {}
  /\ proc = Serving
  /\ ui = NoClient

NextScenario ==
  \/ \E l \in RawLimits, q \in RawSearches : FirstPage(l, q)
  \/ NextPage
  \/ \E ms \in Millis, sid \in ProbeIds : Resume(ms, sid)

SpecScenario == InitScenario /\ [][NextScenario]_vars

(***************************************************************************)
(* The server under requests of every shape: searches of every trimmed      *)
(* length, limit texts of every kind, whole, partial and unparseable        *)
(* cursors, and a store query that may fail                                 *)
(***************************************************************************)
GoodHeader == Str(Bearer \o <<"t">>)
GoodTokenInfo ==
  TokenInfo(GoogleClientId, Str(<<"t", "r", "u", "e">>),
            Str(<<"a", "@", "b", ".", "c">>))

ServerSessionIds == {<<"a", "b", "_", "c">>, <<"A", "B", "_">>}
ServerTimes == {0, 1, TicksPerMs}

ServerSearches ==
  {Undefined, Str(<<>>), Str(<<" ", " ">>), Str(<<"a">>), Str(<<"a", "b">>),
   Str(<<" ", "a", "b", " ">>), Str(<<"a", "b", "_">>),
   Str(<<" ", "a", "b", "_", "c", " ">>)}

ServerLimits ==
  {Undefined, Str(<<>>), Str(<<"x">>), Str(<<"2", "x">>), LimitParam(0),
   LimitParam(0 - 1), LimitParam(1), LimitParam(2), LimitParam(LIST_MAX_LIMIT),
   LimitParam(LIST_MAX_LIMIT + 1)}

ServerCursorDates == {NoIso, InvalidIso} \cup {IsoParam(ms) : ms \in Millis}
ServerCursorIds == {Undefined, Str(<<>>), Str(<<"a", "b", "_", "c">>)}

ListRequests ==
  {Params(l, q, NoIso, Undefined, Undefined) :
     l \in {Undefined, LimitParam(1)}, q \in ServerSearches}
  \cup {Params(l, Undefined, NoIso, Undefined, Undefined) : l \in ServerLimits}
  \cup {Params(LimitParam(1), Undefined, d, sid, Undefined) :
          d \in ServerCursorDates, sid \in ServerCursorIds}

NextServer ==
  \/ \E s \in ServerSessionIds, t \in ServerTimes : InsertMessage(s, t)
  \/ \E p \in ListRequests : Receive("list", GoodHeader, p)
  \/ RequireAuth
  \/ TokenVerified(GoodTokenInfo)
  \/ ListHandler
  \/ ListQueryResolves
  \/ QueryRejects

SpecServer == Init /\ [][NextServer]_vars

(***************************************************************************)
(* Category filters of the list: onlySales and onlyWhatsapp                *)
(***************************************************************************)
\* sessionId.split('_'): the number of segments
RECURSIVE Segments(_)
Segments(sessionId) ==
  IF sessionId = <<>> THEN 1
  ELSE (IF Head(sessionId) = "_" THEN 1 ELSE 0) + Segments(Tail(sessionId))

\* a session id with an underscore anywhere
IsWhatsappAnyUnderscore(sessionId) == Segments(sessionId) >= 2

\* a WhatsApp session: its id is two segments around one underscore
IsWhatsapp(sessionId) == Segments(sessionId) = 2

\* the settings lookup: visitors_settings.type = 'sales' for the session; a
\* session without a settings row is not a sales session
IsSales(set, sessionId) == sessionId \in set

\* the constraints the flags AND into the search predicate
CategoryPredicate(set, onlySales, onlyWhatsapp, sessionId) ==
  /\ onlySales => IsSales(set, sessionId)
  /\ onlyWhatsapp => IsWhatsapp(sessionId)

\* the messages of the sessions the flags keep
CategoryRows(st, set, onlySales, onlyWhatsapp) ==
  LET kept == {m \in BagToSet(st) :
                 CategoryPredicate(set, onlySales, onlyWhatsapp, m.sessionId)}
  IN [m \in kept |-> st[m]]

CategoryRequest(kind, rawLimit, rawSearch, cLma, cSid, onlySales, onlyWhatsapp) ==
  [sent |-> TRUE, kind |-> kind, limit |-> rawLimit, search |-> rawSearch,
   cursorLastMessageAt |-> cLma, cursorSessionId |-> cSid,
   onlySales |-> onlySales, onlyWhatsapp |-> onlyWhatsapp]

\* list(search, onlySales, onlyWhatsapp, no cursor, limit)
ListByCategory(rawLimit, rawSearch, onlySales, onlyWhatsapp) ==
  \E r \in ListResponses(CategoryRows(store, settings, onlySales, onlyWhatsapp),
                         rawLimit, rawSearch, NoIso, Undefined) :
    /\ req' = CategoryRequest("category", rawLimit, rawSearch, NoIso, Undefined,
                              onlySales, onlyWhatsapp)
    /\ resp' = Response(r)
    /\ hist' = NoHistory
    /\ UNCHANGED <<store, srv, settings, ui, proc>>

\* list with the nextCursor of the latest response and the same limit,
\* search and flags
NextCategoryPage ==
  /\ req.sent
  /\ req.kind \in {"category", "categoryNext"}
  /\ resp.status = 200
  /\ resp.nextCursor.defined
  /\ \E r \in ListResponses(CategoryRows(store, settings, req.onlySales,
                                         req.onlyWhatsapp),
                            req.limit, req.search,
                            CursorDateParam(resp.nextCursor),
                            CursorIdParam(resp.nextCursor)) :
       /\ req' = CategoryRequest("categoryNext", req.limit, req.search,
                                 CursorDateParam(resp.nextCursor),
                                 CursorIdParam(resp.nextCursor),
                                 req.onlySales, req.onlyWhatsapp)
       /\ resp' = Response(r)
       /\ hist' = NoHistory
  /\ UNCHANGED <<store, srv, settings, ui, proc>>

CategorySessionIds ==
  {<<"a", "b", "c", "_", "d", "e", "f">>, <<"a", "b", "c", "d", "e", "f">>,
   <<"a", "_", "b", "_", "c">>}
CategoryTimes == {0, TicksPerMs}
CategoryLimits == {NoLimit, LimitParam(1)}
CategorySearches == {Undefined, Str(<<"a", "b", "c">>)}

InitCategory ==
  /\ store = EmptyBag
  /\ req = NoRequest
  /\ resp = NoResponse
  /\ hist = NoHistory
  /\ srv = Idle
  /\ settings \in SUBSET CategorySessionIds
  /\ proc = Serving
  /\ ui = NoClient

NextCategory ==
  \/ \E s \in CategorySessionIds, t \in CategoryTimes : InsertMessage(s, t)
  \/ \E l \in CategoryLimits, q \in CategorySearches,
        onlySales \in BOOLEAN, onlyWhatsapp \in BOOLEAN :
       ListByCategory(l, q, onlySales, onlyWhatsapp)
  \/ NextCategoryPage

SpecCategory == InitCategory /\ [][NextCategory]_vars

(***************************************************************************)
(* Chat summaries: GET /api/chats by sessionId or by search                *)
(***************************************************************************)
DEFAULT_SUMMARY_LIMIT == 25
MAX_SUMMARY_LIMIT == 200

\* a row of chat_messages with what the summaries read of its message
\* column: message ->> 'content' and message ->> 'type'
ChatMessage(s, t, content, type) ==
  [sessionId |-> s, createdAt |-> t, content |-> content, type |-> type]

parseLimit(rawLimit) ==
  IF ~rawLimit.defined THEN DEFAULT_SUMMARY_LIMIT
  ELSE LET parsed == parseInt(rawLimit.text)
       IN IF ~parsed.finite THEN DEFAULT_SUMMARY_LIMIT
          ELSE Min(Max(parsed.n, 1), MAX_SUMMARY_LIMIT)

\* ORDER BY created_at DESC: the rows any of which may come first.  Rows of
\* equal created_at come in any order, and DESC puts NULL first.
FirstByCreatedAtDesc(rows) ==
  IF \E m \in rows : m.createdAt = Null
  THEN {m \in rows : m.createdAt = Null}
  ELSE {m \in rows : \A n \in rows : n.createdAt <= m.createdAt}

\* the query of the sessionId branch: one group, and two ARRAY_AGG(... ORDER
\* BY created_at DESC))[1], each over an order of its own
SummaryByIdResults(st, sessionId) ==
  LET rows == {m \in BagToSet(st) : m.sessionId = sessionId}
  IN IF rows = {} THEN {<<>>}
     ELSE {<<[session_id |-> sessionId,
              message_count |-> SumCopies(st, rows),
              last_message_at |-> MaxOf({m.createdAt : m \in rows} \ {Null}),
              last_message_content |-> c.content,
              last_message_type |-> t.type]>>
           : c \in FirstByCreatedAtDesc(rows), t \in FirstByCreatedAtDesc(rows)}

\* ORDER BY last_message_at DESC: r1 sorts strictly before r2
SummaryOrderBefore(r1, r2) ==
  \/ r1.last_message_at = Null /\ r2.last_message_at # Null
  \/ /\ r1.last_message_at # Null /\ r2.last_message_at # Null
     /\ r1.last_message_at > r2.last_message_at

RECURSIVE SummaryOrderings(_)
SummaryOrderings(rows) ==
  IF rows = {} THEN {<<>>}
  ELSE UNION {{<<r>> \o rest : rest \in SummaryOrderings(rows \ {r})}
              : r \in {x \in rows : \A y \in rows : ~SummaryOrderBefore(y, x)}}

\* limited_sessions: ORDER BY last_message_at DESC LIMIT $2
LimitedSessions(st, search, limit) ==
  {{ord[i] : i \in 1..Min(limit, Len(ord))}
     : ord \in SummaryOrderings(SessionStats(st, search))}

\* ranked_last_messages WHERE row_num = 1: for each session one of the rows
\* that ROW_NUMBER() OVER (PARTITION BY session_id ORDER BY created_at DESC)
\* may number 1
RankedLastMessages(st, sessions) ==
  {f \in [sessions -> BagToSet(st)] :
     \A ls \in sessions :
       f[ls] \in FirstByCreatedAtDesc({m \in BagToSet(st) :
                                         m.sessionId = ls.session_id})}

\* the query of the search branch
SummaryBySearchResults(st, search, limit) ==
  UNION {{[i \in 1..Len(ord) |->
             [session_id |-> ord[i].session_id,
              message_count |-> ord[i].message_count,
              last_message_at |-> ord[i].last_message_at,
              last_message_content |-> rlm[ord[i]].content,
              last_message_type |-> rlm[ord[i]].type]]
          : ord \in SummaryOrderings(ls), rlm \in RankedLastMessages(st, ls)}
         : ls \in LimitedSessions(st, search, limit)}

ToChatSummary(row) ==
  [sessionId |-> row.session_id,
   lastMessagePreview |-> row.last_message_content,
   lastMessageType |-> row.last_message_type,
   lastMessageAt |-> ToDate(row.last_message_at),
   messageCount |-> normalizeCount(row.message_count)]

SummaryData(rows) ==
  [status |-> 200, items |-> [i \in 1..Len(rows) |-> ToChatSummary(rows[i])],
   nextCursor |-> NoCursor]

SummaryBadRequest == [status |-> 400, items |-> <<>>, nextCursor |-> NoCursor]

\* router.get('/'): the responses the handler may send
SummaryResponses(st, rawSessionId, rawSearch, rawLimit) ==
  LET sessionIdQuery == IF rawSessionId.defined THEN Trim(rawSessionId.text)
                        ELSE <<>>
      searchQuery == IF rawSearch.defined THEN Trim(rawSearch.text) ELSE <<>>
      limit == parseLimit(rawLimit)
  IN IF sessionIdQuery # <<>>
     THEN {SummaryData(rows) : rows \in SummaryByIdResults(st, sessionIdQuery)}
     ELSE IF searchQuery = <<>> THEN {SummaryBadRequest}
     ELSE IF Len(searchQuery) < MIN_SEARCH_LENGTH THEN {SummaryBadRequest}
     ELSE {SummaryData(rows)
             : rows \in SummaryBySearchResults(st, Str(searchQuery), limit)}

SummaryRequest(rawSessionId, rawSearch, rawLimit) ==
  [sent |-> TRUE, kind |-> "summary", sessionId |-> rawSessionId,
   search |-> rawSearch, limit |-> rawLimit]

\* GET /api/chats?sessionId=...&search=...&limit=...
GetSummaries(rawSessionId, rawSearch, rawLimit) ==
  \E r \in SummaryResponses(store, rawSessionId, rawSearch, rawLimit) :
    /\ req' = SummaryRequest(rawSessionId, rawSearch, rawLimit)
    /\ resp' = r
    /\ hist' = NoHistory
    /\ UNCHANGED <<store, srv, settings, ui, proc>>

\* a writer inserts a row with its message column
InsertChatMessage(s, t, content, type) ==
  /\ BagCardinality(store) < MaxMessages
  /\ store' = store (+) SetToBag({ChatMessage(s, t, content, type)})
  /\ req' = NoRequest
  /\ resp' = NoResponse
  /\ hist' = NoHistory
  /\ srv' = IF srv.pc = "done" THEN Idle ELSE srv
  /\ UNCHANGED <<settings, ui, proc>>

SummarySessionIds == {<<"a", "b", "_", "c">>, <<"A", "B", "_">>}
SummaryTimes == {0, 1}
SummaryContents == {"hello", "bye"}
SummaryTypes == {"ai", "human"}
SummaryIdParams ==
  {Undefined, Str(<<"a", "b", "_", "c">>), Str(<<" ", "A", "B", "_", " ">>)}
SummarySearchParams == {Undefined, Str(<<"a", "b">>), Str(<<"a", "b", "_">>)}
SummaryLimits == {NoLimit, LimitParam(1)}

NextSummary ==
  \/ \E s \in SummarySessionIds, t \in SummaryTimes,
        content \in SummaryContents, type \in SummaryTypes :
       InsertChatMessage(s, t, content, type)
  \/ \E id \in SummaryIdParams, q \in SummarySearchParams, l \in SummaryLimits :
       GetSummaries(id, q, l)

SpecSummary == Init /\ [][NextSummary]_vars

(***************************************************************************)
(* The messages of a session: GET /api/chats/:sessionId/messages           *)
(***************************************************************************)
\* WHERE session_id = $1: the rows of the session, each stored copy a row
SessionRows(st, sessionId) ==
  LET mine == {m \in BagToSet(st) : m.sessionId = sessionId}
  IN [m \in mine |-> st[m]]

\* ORDER BY created_at ASC: every order in which the rows may be delivered
RECURSIVE AscendingOrders(_)
AscendingOrders(rows) ==
  IF BagToSet(rows) = {} THEN {<<>>}
  ELSE UNION {{<<m>> \o rest : rest \in AscendingOrders(rows (-) SetToBag({m}))}
              : m \in {x \in BagToSet(rows) :
                         \A y \in BagToSet(rows) : x.createdAt <= y.createdAt}}

ToChatMessage(row) ==
  [sessionId |-> row.sessionId, createdAt |-> ToDate(row.createdAt),
   payload |-> [content |-> row.content, type |-> row.type]]

\* the handler answering an unknown session with an empty list
MessagesResponsesEmptyIsOk(st, sessionId) ==
  {[status |-> 200, items |-> [i \in 1..Len(ord) |-> ToChatMessage(ord[i])]]
     : ord \in AscendingOrders(SessionRows(st, sessionId))}

\* router.get('/:sessionId/messages'): the responses the handler may send
\* once its query has resolved
MessagesResponses(st, sessionId) ==
  IF BagCardinality(SessionRows(st, sessionId)) = 0
  THEN {[status |-> 404, items |-> <<>>]}
  ELSE {[status |-> 200, items |-> [i \in 1..Len(ord) |-> ToChatMessage(ord[i])]]
          : ord \in AscendingOrders(SessionRows(st, sessionId))}

\* router.get('/:sessionId/messages') up to the awaited query
MessagesHandler ==
  /\ srv.pc = "handler"
  /\ srv.route = "messages"
  /\ srv' = [srv EXCEPT !.pc = "query", !.queries = @ + 1]
  /\ UNCHANGED <<store, req, resp, hist, settings, ui, proc>>

\* router.get('/:sessionId/messages') from the rows of the query on
MessagesQueryResolves ==
  /\ srv.pc = "query"
  /\ srv.route = "messages"
  /\ \E r \in MessagesResponses(store, srv.params.sessionId.text) :
       srv' = Send(srv, r.status, r.items, NoCursor)
  /\ UNCHANGED <<store, req, resp, hist, settings, ui, proc>>

NextMessages ==
  \/ \E s \in SummarySessionIds, t \in {0, 1, TicksPerMs},
        content \in SummaryContents :
       InsertChatMessage(s, t, content, "ai")
  \/ \E sid \in SummarySessionIds \cup {<<"a", "b", "_">>} :
       Receive("messages", GoodHeader,
               Params(Undefined, Undefined, NoIso, Undefined, Str(sid)))
  \/ \E q \in {Undefined, Str(<<"a", "b", "_">>), Str(<<"a", "b", "x">>)} :
       Receive("list", GoodHeader,
               Params(Undefined, q, NoIso, Undefined, Undefined))
  \/ RequireAuth
  \/ TokenVerified(GoodTokenInfo)
  \/ MessagesHandler
  \/ MessagesQueryResolves
  \/ ListHandler
  \/ ListQueryResolves
  \/ QueryRejects

SpecMessages == Init /\ [][NextMessages]_vars

(***************************************************************************)
(* requireAuth under every kind of Authorization header and tokeninfo      *)
(* answer                                                                  *)
(***************************************************************************)
AuthHeaders ==
  {Undefined, Str(<<>>),
   Str(<<"B", "a", "s", "i", "c", " ", "t">>),
   Str(<<"b", "e", "a", "r", "e", "r", " ", "t">>),
   Str(<<"B", "e", "a", "r", "e", "r", "t">>),
   Str(Bearer), Str(Bearer \o <<" ", " ">>),
   Str(Bearer \o <<"t">>), Str(Bearer \o <<" ", "t", " ">>)}

AuthTokenInfos ==
  {TokenRefused}
  \cup {TokenInfo(aud, ev, Str(<<"a", "@", "b", ".", "c">>)) :
          aud \in {GoogleClientId, <<"c", "i", "x">>, <<>>},
          ev \in {Str(<<"t", "r", "u", "e">>), Str(<<"f", "a", "l", "s", "e">>),
                  Str(<<"T", "r", "u", "e">>), Undefined}}
  \cup {TokenInfo(GoogleClientId, Str(<<"t", "r", "u", "e">>), email) :
          email \in {Undefined, Str(<<>>), Str(<<"A", "@", "B", ".", "C">>),
                     Str(<<"a", "@", "a", "b", ".", "c">>),
                     Str(<<"a", "@", "b", ".", "c", "x">>),
                     Str(<<"b", ".", "c">>), Str(<<"@", "b", ".", "c">>)}}

NextAuth ==
  \/ \E s \in SummarySessionIds : InsertChatMessage(s, 0, "hello", "ai")
  \/ \E h \in AuthHeaders :
       \/ Receive("list", h, NoParams)
       \/ Receive("messages", h,
                  Params(Undefined, Undefined, NoIso, Undefined,
                         Str(<<"A", "B", "_">>)))
  \/ RequireAuth
  \/ \E info \in AuthTokenInfos : TokenVerified(info)
  \/ ListHandler
  \/ ListQueryResolves
  \/ MessagesHandler
  \/ MessagesQueryResolves
  \/ QueryRejects

SpecAuth == Init /\ [][NextAuth]_vars

(***************************************************************************)
(* The list client (App.tsx): React state, the effects that follow every   *)
(* update, and the list and messages requests in flight                    *)
(***************************************************************************)
MaxListRequests == 3  \* list requests one client run may issue

\* CHAT_PAGE_SIZE, scaled to stores of a few sessions
CHAT_PAGE_SIZE == 2
MIN_CHAT_SEARCH_LENGTH == 3

\* null in a sessionId position
NullId == <<>>

\* the state of the component before its first effects; displayedChats is
\* the memo the render computes from chatList; listSearches and
\* cursorRequest record where chatList and listCursor came from: the search
\* of the request that returned each item, and the number of the request
\* whose handling set the cursor
ClientMounted ==
  [open |-> TRUE, chatList |-> <<>>, listCursor |-> NoCursor,
   selectedSessionId |-> NullId, messages |-> <<>>, listLoading |-> FALSE,
   loadingMessages |-> FALSE, listError |-> FALSE, messagesError |-> FALSE,
   searchInput |-> <<>>, appliedSearch |-> <<>>, searchFeedback |-> FALSE,
   showOnlyWhatsapp |-> FALSE, displayedChats |-> <<>>,
   listRequests |-> {}, messageFetches |-> {}, issued |-> 0,
   listSearches |-> <<>>, cursorRequest |-> 0]

\* loadChatList up to its await: the request goes out with the applied
\* search of the render the callback belongs to
IssueListRequest(s, reset, cursor) ==
  [s EXCEPT !.listLoading = TRUE, !.listError = FALSE, !.issued = @ + 1,
            !.listRequests = @ \cup {[n |-> s.issued + 1, reset |-> reset,
                                      search |-> s.appliedSearch,
                                      cursor |-> cursor]}]

\* displayedChats with the filter left out
DisplayedChatsUnfiltered(s) == s.chatList

\* displayedChats
DisplayedChats(s) ==
  IF s.showOnlyWhatsapp
  THEN SelectSeq(s.chatList, LAMBDA chat : IsWhatsapp(chat.sessionId))
  ELSE s.chatList

\* the selection effect leaving a selection alone wherever there is one
SelectionEffectKeepsSelection(s) ==
  IF DisplayedChats(s) = <<>> THEN [s EXCEPT !.selectedSessionId = NullId]
  ELSE IF s.selectedSessionId # NullId THEN s
  ELSE [s EXCEPT !.selectedSessionId = DisplayedChats(s)[1].sessionId]

\* the effect on [displayedChats, selectedSessionId]
SelectionEffect(s) ==
  LET shown == DisplayedChats(s)
  IN IF shown = <<>> THEN [s EXCEPT !.selectedSessionId = NullId]
     ELSE IF /\ s.selectedSessionId # NullId
             /\ \E i \in 1..Len(shown) : shown[i].sessionId = s.selectedSessionId
          THEN s
          ELSE [s EXCEPT !.selectedSessionId = shown[1].sessionId]

\* the effect on [selectedSessionId], run when the selection is no longer
\* prev: the cleanup of the run before sets its isCancelled, then messages are
\* emptied or fetched
MessagesEffect(s, prev) ==
  IF s.selectedSessionId = prev THEN s
  ELSE LET c == [s EXCEPT !.messageFetches =
                             {[f EXCEPT !.isCancelled = TRUE] : f \in @}]
       IN IF c.selectedSessionId = NullId
          THEN [c EXCEPT !.messages = <<>>, !.messagesError = FALSE]
          ELSE [c EXCEPT !.loadingMessages = TRUE, !.messagesError = FALSE,
                         !.messageFetches =
                           @ \cup {[sessionId |-> c.selectedSessionId,
                                    isCancelled |-> FALSE]}]

\* the render that follows the updates of one event and the effects after
\* it, in the order of the component: loadChatList({ reset: true }) when
\* appliedSearch gave a new loadChatList, the messages effect, the selection
\* effect, and the messages effect again when that changed the selection;
\* displayedChats is the memo of the last render
Render(old, new) ==
  LET s1 == IF new.appliedSearch # old.appliedSearch
            THEN IssueListRequest(new, TRUE, NoCursor) ELSE new
      s2 == MessagesEffect(s1, old.selectedSessionId)
      s3 == SelectionEffect(s2)
      s4 == MessagesEffect(s3, s2.selectedSessionId)
  IN [s4 EXCEPT !.displayedChats = DisplayedChats(s4)]

\* the component is mounted and its first effects have run
ClientStarted == IssueListRequest(ClientMounted, TRUE, NoCursor)

\* onChange of the search input
TypeSearch(text) ==
  /\ ui' = [ui EXCEPT !.searchInput = text]
  /\ UNCHANGED <<store, req, resp, hist, srv, settings, proc>>

\* handleSearchSubmit without its test of the length
handleSearchSubmitUnchecked ==
  /\ LET trimmed == Trim(ui.searchInput)
     IN /\ trimmed # ui.appliedSearch => ui.issued < MaxListRequests
        /\ ui' = Render(ui, [ui EXCEPT !.searchFeedback = FALSE,
                                       !.appliedSearch = trimmed])
  /\ UNCHANGED <<store, req, resp, hist, srv, settings, proc>>

handleSearchSubmit ==
  /\ LET trimmed == Trim(ui.searchInput)
     IN IF trimmed # <<>> /\ Len(trimmed) < MIN_CHAT_SEARCH_LENGTH
        THEN ui' = [ui EXCEPT !.searchFeedback = TRUE]
        ELSE /\ trimmed # ui.appliedSearch => ui.issued < MaxListRequests
             /\ ui' = Render(ui, [ui EXCEPT !.searchFeedback = FALSE,
                                            !.appliedSearch = trimmed])
  /\ UNCHANGED <<store, req, resp, hist, srv, settings, proc>>

\* the clear button is there while the input is not empty
handleClearSearch ==
  /\ ui.searchInput # <<>>
  /\ ui.appliedSearch # <<>> => ui.issued < MaxListRequests
  /\ ui' = Render(ui, [ui EXCEPT !.searchInput = <<>>, !.appliedSearch = <<>>,
                                 !.searchFeedback = FALSE])
  /\ UNCHANGED <<store, req, resp, hist, srv, settings, proc>>

\* the Load more button is there while listLoading is false and there is a
\* cursor
handleLoadMore ==
  /\ ~ui.listLoading
  /\ ui.listCursor.defined
  /\ ui.issued < MaxListRequests
  /\ ui' = Render(ui, IssueListRequest(ui, FALSE, ui.listCursor))
  /\ UNCHANGED <<store, req, resp, hist, srv, settings, proc>>

\* onChange of the WhatsApp checkbox
ToggleWhatsapp ==
  /\ ui' = Render(ui, [ui EXCEPT !.showOnlyWhatsapp = ~@])
  /\ UNCHANGED <<store, req, resp, hist, srv, settings, proc>>

\* onClick of a displayed chat
SelectChat(i) ==
  /\ i \in 1..Len(DisplayedChats(ui))
  /\ ui' = Render(ui, [ui EXCEPT !.selectedSessionId =
                                   DisplayedChats(ui)[i].sessionId])
  /\ UNCHANGED <<store, req, resp, hist, srv, settings, proc>>

\* setSelectedSessionId((prev) => ...) of loadChatList
SelectionAfterLoad(prev, reset, items) ==
  LET first == IF items = <<>> THEN NullId ELSE items[1].sessionId
  IN IF reset
     THEN IF prev # NullId /\ \E i \in 1..Len(items) : items[i].sessionId = prev
          THEN prev ELSE first
     ELSE IF prev # NullId THEN prev ELSE first

\* the query parameters fetchChatList makes of a request
ListParamsOf(rq) ==
  Params(LimitParam(CHAT_PAGE_SIZE),
         IF rq.search # <<>> THEN Str(rq.search) ELSE Undefined,
         IF rq.reset \/ ~rq.cursor.defined THEN NoIso
         ELSE CursorDateParam(rq.cursor),
         IF rq.reset \/ ~rq.cursor.defined THEN Undefined
         ELSE CursorIdParam(rq.cursor),
         Undefined)

\* loadChatList from the response on: the try block and finally
ListResponseArrives(rq) ==
  /\ rq \in ui.listRequests
  /\ LET p == ListParamsOf(rq)
     IN \E r \in ListResponses(store, p.limit, p.search, p.cursorLastMessageAt,
                               p.cursorSessionId) :
          /\ r.status = 200
          /\ ui' = Render(ui,
               [ui EXCEPT
                  !.listRequests = @ \ {rq},
                  !.chatList = IF rq.reset THEN r.items ELSE @ \o r.items,
                  !.listSearches =
                    IF rq.reset THEN [i \in 1..Len(r.items) |-> rq.search]
                    ELSE @ \o [i \in 1..Len(r.items) |-> rq.search],
                  !.listCursor = r.nextCursor,
                  !.cursorRequest = rq.n,
                  !.selectedSessionId = SelectionAfterLoad(@, rq.reset, r.items),
                  !.listLoading = FALSE])
  /\ UNCHANGED <<store, req, resp, hist, srv, settings, proc>>

\* loadChatList when the fetch or the response throws: catch and finally
ListRequestFails(rq) ==
  /\ rq \in ui.listRequests
  /\ ui' = Render(ui,
       IF rq.reset
       THEN [ui EXCEPT !.listRequests = @ \ {rq}, !.listError = TRUE,
                       !.chatList = <<>>, !.listSearches = <<>>,
                       !.listCursor = NoCursor, !.cursorRequest = rq.n,
                       !.selectedSessionId = NullId, !.listLoading = FALSE]
       ELSE [ui EXCEPT !.listRequests = @ \ {rq}, !.listError = TRUE,
                       !.listLoading = FALSE])
  /\ UNCHANGED <<store, req, resp, hist, srv, settings, proc>>

\* loadMessages taking the response without looking at isCancelled
MessagesArriveUnchecked(f) ==
  /\ f \in ui.messageFetches
  /\ \E r \in MessagesResponses(store, f.sessionId) :
       /\ r.status = 200
       /\ ui' = [ui EXCEPT !.messageFetches = @ \ {f}, !.messages = r.items,
                           !.loadingMessages = FALSE]
  /\ UNCHANGED <<store, req, resp, hist, srv, settings, proc>>

\* loadMessages from the response on
MessagesArrive(f) ==
  /\ f \in ui.messageFetches
  /\ \E r \in MessagesResponses(store, f.sessionId) :
       /\ r.status = 200
       /\ ui' = IF f.isCancelled THEN [ui EXCEPT !.messageFetches = @ \ {f}]
                ELSE [ui EXCEPT !.messageFetches = @ \ {f},
                                !.messages = r.items,
                                !.loadingMessages = FALSE]
  /\ UNCHANGED <<store, req, resp, hist, srv, settings, proc>>

\* loadMessages when the fetch or the response throws
MessagesFail(f) ==
  /\ f \in ui.messageFetches
  /\ ui' = IF f.isCancelled THEN [ui EXCEPT !.messageFetches = @ \ {f}]
           ELSE [ui EXCEPT !.messageFetches = @ \ {f}, !.messages = <<>>,
                           !.messagesError = TRUE, !.loadingMessages = FALSE]
  /\ UNCHANGED <<store, req, resp, hist, srv, settings, proc>>

\* the store the clients run against: three sessions, two of them of two
\* segments, two of them last written in the same millisecond
ClientStore ==
  SetToBag({ChatMessage(<<"a", "b", "_", "c">>, TicksPerMs, "hello", "ai"),
            ChatMessage(<<"a", "b", "\\", "%">>, 0, "hello", "human"),
            ChatMessage(<<"A", "B", "_">>, 0, "bye", "ai")})

InitClient ==
  /\ store = ClientStore
  /\ req = NoRequest
  /\ resp = NoResponse
  /\ hist = NoHistory
  /\ srv = Idle
  /\ settings = {}
  /\ proc = Serving
  /\ ui = ClientStarted

NextClient ==
  \/ \E text \in {<<>>, <<"a", "b">>, <<" ", "a", "b", "_">>} :
       TypeSearch(text)
  \/ handleSearchSubmit
  \/ handleClearSearch
  \/ handleLoadMore
  \/ ToggleWhatsapp
  \/ \E i \in 1..3 : SelectChat(i)
  \/ \E rq \in ui.listRequests : ListResponseArrives(rq)
  \/ \E rq \in ui.listRequests : ListRequestFails(rq)
  \/ \E f \in ui.messageFetches : MessagesArrive(f)
  \/ \E f \in ui.messageFetches : MessagesFail(f)

SpecClient == InitClient /\ [][NextClient]_vars

(***************************************************************************)
(* The authenticated list client (part_002 with auth.ts): the ID token in  *)
(* React state, in the auth module and in localStorage, sign-in, sign-out  *)
(* and the requests that carry the token.  Search and the category flags,  *)
(* which handleSignOut resets, stay at their initial values here: the      *)
(* handlers that change them are those of the list client.                 *)
(***************************************************************************)
\* the ID token Google hands out
IdToken == "idtoken"

\* no token: null
NoToken == "null"

\* persistAuthToken that leaves the localStorage entry in place on null
persistAuthTokenKeepsEntry(s, token) ==
  [s EXCEPT !.moduleToken = token,
            !.stored = IF token # NoToken THEN token ELSE @]

\* persistAuthToken: the module's authToken and the localStorage entry
\* (setItem under a token, removeItem under null)
persistAuthToken(s, token) ==
  [s EXCEPT !.moduleToken = token, !.stored = token]

\* getAuthHeaders: the headers as a set of <<name, value>>
getAuthHeaders(s) ==
  IF s.moduleToken # NoToken THEN {<<"Authorization", <<"Bearer", s.moduleToken>>>>}
  ELSE {}

\* the component over a localStorage entry: initializeAuthToken gave the
\* module and the React state the stored token; signedOut records that the
\* last change of the token was a sign-out
AuthClientMounted(entry) ==
  [open |-> TRUE, authToken |-> entry, moduleToken |-> entry, stored |-> entry,
   signedOut |-> FALSE, authError |-> FALSE,
   chatList |-> <<>>, listCursor |-> NoCursor,
   selectedSessionId |-> NullId, messages |-> <<>>, listLoading |-> FALSE,
   loadingMessages |-> FALSE, listError |-> FALSE, messagesError |-> FALSE,
   appliedSearch |-> <<>>,
   listRequests |-> {}, messageFetches |-> {}, issued |-> 0]

\* loadChatList up to its await
AuthLoadChatList(s, reset, cursor) ==
  IF s.authToken = NoToken
  THEN IF reset
       THEN [s EXCEPT !.chatList = <<>>, !.listCursor = NoCursor,
                      !.selectedSessionId = NullId]
       ELSE s
  ELSE [s EXCEPT !.listLoading = TRUE, !.listError = FALSE, !.issued = @ + 1,
                 !.listRequests = @ \cup {[n |-> s.issued + 1, reset |-> reset,
                                           search |-> s.appliedSearch,
                                           cursor |-> cursor,
                                           headers |-> getAuthHeaders(s)]}]

\* the effect on [selectedSessionId, authToken], run when one of them changed
AuthMessagesEffect(s, changed) ==
  IF ~changed THEN s
  ELSE LET c == [s EXCEPT !.messageFetches =
                             {[f EXCEPT !.isCancelled = TRUE] : f \in @}]
       IN IF c.selectedSessionId = NullId \/ c.authToken = NoToken
          THEN [c EXCEPT !.messages = <<>>, !.messagesError = FALSE]
          ELSE [c EXCEPT !.loadingMessages = TRUE, !.messagesError = FALSE,
                         !.messageFetches =
                           @ \cup {[sessionId |-> c.selectedSessionId,
                                    isCancelled |-> FALSE,
                                    headers |-> getAuthHeaders(c)]}]

\* the effect on [chatList, selectedSessionId]
AuthSelectionEffect(s) ==
  IF s.chatList = <<>> THEN [s EXCEPT !.selectedSessionId = NullId]
  ELSE IF /\ s.selectedSessionId # NullId
          /\ \E i \in 1..Len(s.chatList) :
               s.chatList[i].sessionId = s.selectedSessionId
       THEN s
       ELSE [s EXCEPT !.selectedSessionId = s.chatList[1].sessionId]

\* the render after the updates of one event and its effects, in the order
\* of the component: persistAuthToken, loadChatList({ reset: true }) under a
\* token, the messages effect, the selection effect and the messages effect
\* again when that changed the selection
AuthRender(old, new) ==
  LET s1 == IF new.authToken # old.authToken
            THEN persistAuthToken(new, new.authToken) ELSE new
      s2 == IF new.authToken # old.authToken /\ new.authToken # NoToken
            THEN AuthLoadChatList(s1, TRUE, NoCursor) ELSE s1
      s3 == AuthMessagesEffect(s2, \/ s2.selectedSessionId # old.selectedSessionId
                                   \/ s2.authToken # old.authToken)
      s4 == AuthSelectionEffect(s3)
  IN AuthMessagesEffect(s4, s4.selectedSessionId # s3.selectedSessionId)

\* the state updates of handleSignOut
SignedOut(s) ==
  [s EXCEPT !.authToken = NoToken, !.authError = FALSE, !.chatList = <<>>,
            !.listCursor = NoCursor, !.selectedSessionId = NullId,
            !.messages = <<>>, !.messagesError = FALSE, !.listError = FALSE,
            !.appliedSearch = <<>>, !.signedOut = TRUE]

\* the callback of google.accounts.id with a credential
CredentialReceived ==
  /\ ui.authToken = NoToken
  /\ ui.issued < MaxListRequests
  /\ ui' = AuthRender(ui, [ui EXCEPT !.authToken = IdToken, !.authError = FALSE,
                                     !.signedOut = FALSE])
  /\ UNCHANGED <<store, req, resp, hist, srv, settings, proc>>

\* the Sign out button, there under a token
handleSignOut ==
  /\ ui.authToken # NoToken
  /\ ui' = AuthRender(ui, SignedOut(ui))
  /\ UNCHANGED <<store, req, resp, hist, srv, settings, proc>>

AuthLoadMore ==
  /\ ~ui.listLoading
  /\ ui.listCursor.defined
  /\ ui.issued < MaxListRequests
  /\ ui' = AuthRender(ui, AuthLoadChatList(ui, FALSE, ui.listCursor))
  /\ UNCHANGED <<store, req, resp, hist, srv, settings, proc>>

AuthSelectChat(i) ==
  /\ i \in 1..Len(ui.chatList)
  /\ ui' = AuthRender(ui, [ui EXCEPT !.selectedSessionId =
                                       ui.chatList[i].sessionId])
  /\ UNCHANGED <<store, req, resp, hist, srv, settings, proc>>

\* loadChatList from a 200 response on; requireAuth lets only requests with
\* an Authorization header through
AuthListResponseArrives(rq) ==
  /\ rq \in ui.listRequests
  /\ rq.headers # {}
  /\ LET p == ListParamsOf(rq)
     IN \E r \in ListResponses(store, p.limit, p.search, p.cursorLastMessageAt,
                               p.cursorSessionId) :
          /\ r.status = 200
          /\ ui' = AuthRender(ui,
               [ui EXCEPT
                  !.listRequests = @ \ {rq},
                  !.chatList = IF rq.reset THEN r.items ELSE @ \o r.items,
                  !.listCursor = r.nextCursor,
                  !.selectedSessionId = SelectionAfterLoad(@, rq.reset, r.items),
                  !.listLoading = FALSE])
  /\ UNCHANGED <<store, req, resp, hist, srv, settings, proc>>

\* loadChatList on an UnauthorizedError: handleUnauthorized, then finally
AuthListUnauthorized(rq) ==
  /\ rq \in ui.listRequests
  /\ ui' = AuthRender(ui, [SignedOut(ui) EXCEPT !.listRequests = @ \ {rq},
                                                !.authError = TRUE,
                                                !.listLoading = FALSE])
  /\ UNCHANGED <<store, req, resp, hist, srv, settings, proc>>

\* loadChatList on another error
AuthListRequestFails(rq) ==
  /\ rq \in ui.listRequests
  /\ ui' = AuthRender(ui,
       IF rq.reset
       THEN [ui EXCEPT !.listRequests = @ \ {rq}, !.listError = TRUE,
                       !.chatList = <<>>, !.listCursor = NoCursor,
                       !.selectedSessionId = NullId, !.listLoading = FALSE]
       ELSE [ui EXCEPT !.listRequests = @ \ {rq}, !.listError = TRUE,
                       !.listLoading = FALSE])
  /\ UNCHANGED <<store, req, resp, hist, srv, settings, proc>>

\* loadMessages from a 200 response on
AuthMessagesArrive(f) ==
  /\ f \in ui.messageFetches
  /\ f.headers # {}
  /\ \E r \in MessagesResponses(store, f.sessionId) :
       /\ r.status = 200
       /\ ui' = IF f.isCancelled THEN [ui EXCEPT !.messageFetches = @ \ {f}]
                ELSE [ui EXCEPT !.messageFetches = @ \ {f},
                                !.messages = r.items,
                                !.loadingMessages = FALSE]
  /\ UNCHANGED <<store, req, resp, hist, srv, settings, proc>>

\* loadMessages on an UnauthorizedError: handleUnauthorized whether or not
\* the fetch was cancelled
AuthMessagesUnauthorized(f) ==
  /\ f \in ui.messageFetches
  /\ ui' = AuthRender(ui,
       [SignedOut(ui) EXCEPT !.messageFetches = @ \ {f}, !.authError = TRUE,
                             !.loadingMessages =
                               IF f.isCancelled THEN @ ELSE FALSE])
  /\ UNCHANGED <<store, req, resp, hist, srv, settings, proc>>

\* loadMessages on another error
AuthMessagesFail(f) ==
  /\ f \in ui.messageFetches
  /\ ui' = IF f.isCancelled THEN [ui EXCEPT !.messageFetches = @ \ {f}]
           ELSE [ui EXCEPT !.messageFetches = @ \ {f}, !.messages = <<>>,
                           !.messagesError = TRUE, !.loadingMessages = FALSE]
  /\ UNCHANGED <<store, req, resp, hist, srv, settings, proc>>

\* the page opens with or without a token in localStorage; under a token
\* the first effects have sent the first list request
InitAuthClient ==
  /\ store = ClientStore
  /\ req = NoRequest
  /\ resp = NoResponse
  /\ hist = NoHistory
  /\ srv = Idle
  /\ settings = {}
  /\ proc = Serving
  /\ \E entry \in {NoToken, IdToken} :
       ui = AuthLoadChatList(AuthClientMounted(entry), TRUE, NoCursor)

NextAuthClient ==
  \/ CredentialReceived
  \/ handleSignOut
  \/ AuthLoadMore
  \/ \E i \in 1..3 : AuthSelectChat(i)
  \/ \E rq \in ui.listRequests : AuthListResponseArrives(rq)
  \/ \E rq \in ui.listRequests : AuthListUnauthorized(rq)
  \/ \E rq \in ui.listRequests : AuthListRequestFails(rq)
  \/ \E f \in ui.messageFetches : AuthMessagesArrive(f)
  \/ \E f \in ui.messageFetches : AuthMessagesUnauthorized(f)
  \/ \E f \in ui.messageFetches : AuthMessagesFail(f)

SpecAuthClient == InitAuthClient /\ [][NextAuthClient]_vars

(***************************************************************************)
(* The search-on-demand client (part_003): Find, Refresh, the clear button *)
(* and the summaries requests in flight                                    *)
(***************************************************************************)
SUMMARY_LIMIT == 25

\* no Refresh was pressed yet
NoRefresh == [pressed |-> FALSE, last |-> Undefined, requested |-> Undefined]

\* the component after its first effects; lastSearch is the term of the last
\* summaries request sent, refresh what the last press of Refresh found as
\* lastSearch and what it requested
SearchClientStarted ==
  [open |-> TRUE, chatSummaries |-> <<>>, selectedSessionId |-> NullId,
   messages |-> <<>>, loadingChats |-> FALSE, loadingMessages |-> FALSE,
   summariesError |-> FALSE, messagesError |-> FALSE,
   searchSessionId |-> <<>>, hasSearched |-> FALSE,
   summaryRequests |-> {}, messageFetches |-> {}, issued |-> 0,
   lastSearch |-> Undefined, refresh |-> NoRefresh]

\* handleFindSession with loadSummaries up to its await
FindSession(s) ==
  LET trimmedSearch == Trim(s.searchSessionId)
  IN IF trimmedSearch = <<>> \/ Len(trimmedSearch) < MIN_SEARCH_LENGTH
     THEN [s EXCEPT !.chatSummaries = <<>>, !.selectedSessionId = NullId,
                    !.summariesError = TRUE]
     ELSE [s EXCEPT !.hasSearched = TRUE, !.loadingChats = TRUE,
                    !.summariesError = FALSE, !.issued = @ + 1,
                    !.lastSearch = Str(trimmedSearch),
                    !.summaryRequests =
                      @ \cup {[n |-> s.issued + 1, search |-> trimmedSearch]}]

\* what a press of a button requested: the term of the request it sent
RequestedBy(before, after) ==
  IF after.issued = before.issued THEN Undefined ELSE after.lastSearch

\* onChange of the search input
TypeSessionId(text) ==
  /\ ui' = [ui EXCEPT !.searchSessionId = text]
  /\ UNCHANGED <<store, req, resp, hist, srv, settings, proc>>

\* onSubmit of the search form
PressFind ==
  /\ ui.issued < MaxListRequests
  /\ ui' = MessagesEffect(FindSession(ui), ui.selectedSessionId)
  /\ UNCHANGED <<store, req, resp, hist, srv, settings, proc>>

\* onClick of the Refresh button, disabled={loadingChats || !hasSearched}
PressRefresh ==
  /\ ~ui.loadingChats
  /\ ui.hasSearched
  /\ ui.issued < MaxListRequests
  /\ LET after == FindSession(ui)
     IN ui' = MessagesEffect(
                [after EXCEPT !.refresh =
                   [pressed |-> TRUE, last |-> ui.lastSearch,
                    requested |-> RequestedBy(ui, after)]],
                ui.selectedSessionId)
  /\ UNCHANGED <<store, req, resp, hist, srv, settings, proc>>

\* onClick of the clear button, there while the input is not empty
PressClear ==
  /\ ui.searchSessionId # <<>>
  /\ ui' = MessagesEffect(
             [ui EXCEPT !.searchSessionId = <<>>, !.hasSearched = FALSE,
                        !.chatSummaries = <<>>, !.selectedSessionId = NullId,
                        !.summariesError = FALSE],
             ui.selectedSessionId)
  /\ UNCHANGED <<store, req, resp, hist, srv, settings, proc>>

\* the session loadSummaries selects in a response that is not empty
SelectedInSummaries(data, trimmedSearch) ==
  LET lowerSearch == [i \in 1..Len(trimmedSearch) |-> Lower(trimmedSearch[i])]
      LowerId(chat) == [i \in 1..Len(chat.sessionId) |-> Lower(chat.sessionId[i])]
      matches == {i \in 1..Len(data) : LowerId(data[i]) = lowerSearch}
  IN IF matches # {}
     THEN data[CHOOSE i \in matches : \A j \in matches : i <= j].sessionId
     ELSE data[1].sessionId

\* loadSummaries from a 200 response on
SummariesArrive(rq) ==
  /\ rq \in ui.summaryRequests
  /\ \E r \in SummaryResponses(store, Undefined, Str(rq.search),
                               LimitParam(SUMMARY_LIMIT)) :
       /\ r.status = 200
       /\ ui' = MessagesEffect(
            IF r.items = <<>>
            THEN [ui EXCEPT !.summaryRequests = @ \ {rq},
                            !.chatSummaries = <<>>,
                            !.selectedSessionId = NullId,
                            !.summariesError = TRUE, !.loadingChats = FALSE]
            ELSE [ui EXCEPT !.summaryRequests = @ \ {rq},
                            !.chatSummaries = r.items,
                            !.selectedSessionId =
                              SelectedInSummaries(r.items, rq.search),
                            !.loadingChats = FALSE],
            ui.selectedSessionId)
  /\ UNCHANGED <<store, req, resp, hist, srv, settings, proc>>

\* loadSummaries when the fetch or the response throws
SummariesFail(rq) ==
  /\ rq \in ui.summaryRequests
  /\ ui' = MessagesEffect(
             [ui EXCEPT !.summaryRequests = @ \ {rq}, !.chatSummaries = <<>>,
                        !.selectedSessionId = NullId, !.summariesError = TRUE,
                        !.loadingChats = FALSE],
             ui.selectedSessionId)
  /\ UNCHANGED <<store, req, resp, hist, srv, settings, proc>>

InitSearchClient ==
  /\ store = ClientStore
  /\ req = NoRequest
  /\ resp = NoResponse
  /\ hist = NoHistory
  /\ srv = Idle
  /\ settings = {}
  /\ proc = Serving
  /\ ui = SearchClientStarted

NextSearchClient ==
  \/ \E text \in {<<>>, <<"a", "b">>, <<"a", "b", "_">>, <<" ", "A", "B", "_">>} :
       TypeSessionId(text)
  \/ PressFind
  \/ PressRefresh
  \/ PressClear
  \/ \E rq \in ui.summaryRequests : SummariesArrive(rq)
  \/ \E rq \in ui.summaryRequests : SummariesFail(rq)
  \/ \E f \in ui.messageFetches : MessagesArrive(f)
  \/ \E f \in ui.messageFetches : MessagesFail(f)

SpecSearchClient == InitSearchClient /\ [][NextSearchClient]_vars

(***************************************************************************)
(* The server process from a shutdown signal to its exit (index.ts,        *)
(* db.ts): server.close with its callback, disconnect, process.exit        *)
(***************************************************************************)
MaxSignals == 3       \* signals one run delivers
MaxConnections == 2   \* HTTP connections open at a time
MaxBusyClients == 2   \* pool clients checked out by queries still running

\* the process after app.listen, with queries of earlier requests running.
\* registered holds, for every callback given to server.close and not yet
\* called, whether it will be given ERR_SERVER_NOT_RUNNING; waiting is the
\* callback suspended at `await disconnect()` on the pool's own promise
ProcessListening(busy) ==
  [signals |-> <<>>, listening |-> TRUE, connections |-> 0, busy |-> busy,
   registered |-> <<>>,
   waiting |-> [is |-> FALSE, closeError |-> FALSE],
   pool |-> "open", closeFired |-> FALSE, closeReportedError |-> FALSE,
   disconnects |-> 0, exited |-> FALSE, exitCode |-> Null]

\* process.exit(closeError ? 1 : 0)
Exit(p, closeError) ==
  [p EXCEPT !.exited = TRUE, !.exitCode = IF closeError THEN 1 ELSE 0]

\* the 'close' event of the server: the registered callbacks run in order up
\* to their `await disconnect()`.  The first pool.end() of the process gives
\* a promise that is resolved at once (atOnce, no client checked out) or
\* later; every further pool.end() is rejected ('Called end on pool more
\* than once').  The callback whose disconnect settled first goes on to
\* finally and exits the process.
EmitClose(p, atOnce) ==
  LET cbs == p.registered
      first == p.pool = "open"
      fired == [p EXCEPT !.registered = <<>>, !.closeFired = TRUE,
                         !.closeReportedError =
                           @ \/ \E i \in 1..Len(cbs) : cbs[i],
                         !.disconnects = @ + Len(cbs),
                         !.pool = IF ~first THEN @
                                  ELSE IF atOnce THEN "ended" ELSE "ending"]
  IN IF first /\ atOnce THEN Exit(fired, cbs[1])
     ELSE IF first /\ Len(cbs) = 1
          THEN [fired EXCEPT !.waiting = [is |-> TRUE, closeError |-> cbs[1]]]
     ELSE IF first
          THEN Exit([fired EXCEPT !.waiting = [is |-> TRUE, closeError |-> cbs[1]]],
                    cbs[2])
     ELSE Exit(fired, cbs[1])

\* _emitCloseIfDrained: 'close' is emitted on the next tick once the server
\* listens no more and has no connection
EmitCloseIfDrained(p, atOnce) ==
  IF ~p.listening /\ p.connections = 0 /\ p.registered # <<>>
  THEN EmitClose(p, atOnce)
  ELSE p

\* which way the first pool.end() may go in state p
EndsAtOnce(p) == {FALSE} \cup (IF p.busy = 0 /\ p.pool = "open" THEN {TRUE} ELSE {})

\* gracefulShutdown on SIGINT or SIGTERM: server.close(callback); on a server
\* that listens no more the callback will be given ERR_SERVER_NOT_RUNNING
gracefulShutdown(sig) ==
  /\ ~proc.exited
  /\ Len(proc.signals) < MaxSignals
  /\ \E atOnce \in EndsAtOnce(proc) :
       proc' = EmitCloseIfDrained(
                 [proc EXCEPT !.signals = Append(@, sig), !.listening = FALSE,
                              !.registered = Append(@, ~proc.listening)],
                 atOnce)
  /\ UNCHANGED <<store, req, resp, hist, srv, settings, ui>>

\* a client connects to the listening server
ConnectionOpens ==
  /\ ~proc.exited
  /\ proc.listening
  /\ proc.connections < MaxConnections
  /\ proc' = [proc EXCEPT !.connections = @ + 1]
  /\ UNCHANGED <<store, req, resp, hist, srv, settings, ui>>

\* a connection of the server ends
ConnectionEnds ==
  /\ ~proc.exited
  /\ proc.connections > 0
  /\ \E atOnce \in EndsAtOnce(proc) :
       proc' = EmitCloseIfDrained([proc EXCEPT !.connections = @ - 1], atOnce)
  /\ UNCHANGED <<store, req, resp, hist, srv, settings, ui>>

\* a query ends and its client goes back to the pool
QueryEnds ==
  /\ ~proc.exited
  /\ proc.busy > 0
  /\ proc' = [proc EXCEPT !.busy = @ - 1]
  /\ UNCHANGED <<store, req, resp, hist, srv, settings, ui>>

\* the pool has ended its clients: the promise of the first pool.end() is
\* resolved and the callback waiting for it exits the process
PoolEnds ==
  /\ ~proc.exited
  /\ proc.pool = "ending"
  /\ proc.busy = 0
  /\ proc.waiting.is
  /\ proc' = Exit([proc EXCEPT !.pool = "ended"], proc.waiting.closeError)
  /\ UNCHANGED <<store, req, resp, hist, srv, settings, ui>>

InitShutdown ==
  /\ store = EmptyBag
  /\ req = NoRequest
  /\ resp = NoResponse
  /\ hist = NoHistory
  /\ srv = Idle
  /\ settings = {}
  /\ ui = NoClient
  /\ \E busy \in 0..MaxBusyClients : proc = ProcessListening(busy)

NextShutdown ==
  \/ \E sig \in {"SIGINT", "SIGTERM"} : gracefulShutdown(sig)
  \/ ConnectionOpens
  \/ ConnectionEnds
  \/ QueryEnds
  \/ PoolEnds

\* queries in flight end and the pool then ends; connections may stay open
SpecShutdown ==
  /\ InitShutdown
  /\ [][NextShutdown]_vars
  /\ WF_vars(QueryEnds)
  /\ WF_vars(PoolEnds)

(***************************************************************************)
(* Claims                                                                  *)
(***************************************************************************)

\* C1: on a fixed store, the pages of a traversal that starts without a cursor
\* and follows nextCursor until none is returned concatenate to the filtered
\* sessions, each exactly once, in canonical order.
C1_TraversalCoversFilteredSet ==
  (Answered /\ hist.fromStart /\ hist.fixed /\ ~resp.nextCursor.defined)
    => ItemIds(hist.pages) = Ids(Canonical(Keys(store, ReqSearch)))

\* C2: when every insert between two consecutive page requests landed after
\* the cursor's position, the page requested with the cursor is made of the
\* first sessions ordered strictly after that position; the session the
\* cursor was taken from is not among them and none is skipped.
C2_NoSkipAfterInsertsBehindCursor ==
  (Answered /\ req.kind = "next" /\ hist.crossed = "after")
    => /\ ItemIds(resp.items) =
            Ids(Take(Canonical({k \in Keys(store, ReqSearch) :
                                  KeyBefore(hist.prevBoundary, k)}),
                     ReqLimit))
       /\ \A i \in 1..Len(resp.items) :
            resp.items[i].sessionId # hist.prevBoundary.sid

\* the sessions whose stored key lies after the cursor (t, s), by value
AfterCursor(st, search, t, s) ==
  {k \in Keys(st, search) :
     /\ k.ts # Null
     /\ \/ k.ts < ToTimestamp(t)
        \/ k.ts = ToTimestamp(t) /\ TextLess(k.sid, s)}

\* C3: a request with cursor (t, s) returns the first `limit` sessions, in
\* canonical order, among exactly those with lastMessageAt < t, or
\* lastMessageAt = t and sessionId < s; whether s names a stored session plays
\* no part.
C3_CursorIsComparedByValue ==
  (Answered /\ req.cursorLastMessageAt.defined /\ req.cursorSessionId.defined)
    => ItemIds(resp.items) =
         Ids(Take(Canonical(AfterCursor(store, ReqSearch,
                                        req.cursorLastMessageAt.ms,
                                        req.cursorSessionId.text)),
                  ReqLimit))

C3_Witness ==
  /\ Answered
  /\ req.cursorLastMessageAt.defined
  /\ req.cursorSessionId.defined
  /\ req.cursorSessionId.text \notin Sessions(store)
  /\ Len(resp.items) >= 1
  /\ \E k \in Keys(store, ReqSearch) :
       /\ k.ts = ToTimestamp(req.cursorLastMessageAt.ms)
       /\ TextLess(k.sid, req.cursorSessionId.text)
  /\ \E k \in Keys(store, ReqSearch) :
       /\ k.ts = ToTimestamp(req.cursorLastMessageAt.ms)
       /\ TextLess(req.cursorSessionId.text, k.sid)

\* C4: a response carries nextCursor exactly when it has `limit` items and the
\* last item's lastMessageAt is not null; nextCursor is then the
\* {lastMessageAt, sessionId} of the last item.
C4_NextCursorIffFullPage ==
  (req.sent /\ resp.status = 200)
    => LET n == Len(resp.items)
       IN /\ resp.nextCursor.defined
               <=> (n = ReqLimit /\ resp.items[n].lastMessageAt # Null)
          /\ resp.nextCursor.defined
               => /\ resp.nextCursor.lastMessageAt = resp.items[n].lastMessageAt
                  /\ resp.nextCursor.sessionId = resp.items[n].sessionId

\* C5: a request without cursor returns the first min(limit, N) filtered
\* sessions in canonical order (lastMessageAt descending, null last, equal
\* timestamps by sessionId descending); no response has more than `limit`
\* items.
C5_FirstPageIsCanonicalPrefix ==
  /\ (Answered /\ ~req.cursorLastMessageAt.defined)
       => ItemIds(resp.items) =
            Ids(Take(Canonical(Keys(store, ReqSearch)), ReqLimit))
  /\ (req.sent /\ resp.status = 200) => Len(resp.items) <= ReqLimit

\* the place of key k in a sequence of keys, 0 when absent
Position(keys, k) ==
  IF \E i \in 1..Len(keys) : keys[i] = k
  THEN CHOOSE i \in 1..Len(keys) : keys[i] = k
  ELSE 0

\* C6: when a page ends on a session that is followed, in canonical order, by
\* a session with the same lastMessageAt, that next session has the smaller
\* sessionId and is the first item of the page requested with nextCursor.
C6_TieAcrossPageBoundary ==
  LET list == Canonical(Keys(store, ReqSearch))
      i == Position(list, hist.prevBoundary)
  IN (/\ Answered /\ req.kind = "next" /\ hist.fromStart /\ hist.fixed
      /\ i >= 1 /\ i < Len(list)
      /\ list[i + 1].ts = list[i].ts)
       => /\ TextLess(list[i + 1].sid, list[i].sid)
          /\ Len(resp.items) >= 1
          /\ resp.items[1].sessionId = list[i + 1].sid

C4_Witness ==
  /\ req.sent /\ resp.status = 200
  /\ ReqLimit >= 2
  /\ Len(resp.items) = ReqLimit
  /\ resp.nextCursor.defined

\* a full first page of two sessions with equal timestamps, a session with
\* null lastMessageAt left for later
C5_Witness ==
  LET list == Canonical(Keys(store, ReqSearch))
  IN /\ Answered /\ ~req.cursorLastMessageAt.defined
     /\ ReqLimit = 2
     /\ Len(resp.items) = ReqLimit
     /\ Len(list) > ReqLimit
     /\ list[1].ts = list[2].ts
     /\ list[Len(list)].ts = Null

\* C8: on an unchanged store, a request with the search, cursor and limit of
\* the request before it gets the same items and the same nextCursor.
C8_SameRequestSameResponse ==
  [][(/\ Answered
      /\ store' = store
      /\ req'.sent
      /\ req'.limit = req.limit
      /\ req'.search = req.search
      /\ req'.cursorLastMessageAt = req.cursorLastMessageAt
      /\ req'.cursorSessionId = req.cursorSessionId)
       => resp' = resp]_vars

\* a response whose page ends between two sessions of equal lastMessageAt
C8_Witness ==
  LET list == Canonical(AfterCursor(store, ReqSearch,
                                    req.cursorLastMessageAt.ms,
                                    req.cursorSessionId.text))
  IN /\ Answered /\ req.cursorLastMessageAt.defined
     /\ Len(resp.items) = ReqLimit
     /\ Len(list) > ReqLimit
     /\ list[ReqLimit].ts = list[ReqLimit + 1].ts

\* createdAt of a message as the API gives it: an ISO string, whole
\* milliseconds
CreatedAtIso(m) == ToDate(m.createdAt)

\* C9: every item's messageCount is the number of stored messages of its
\* session (so at least 1), with or without a search; its lastMessageAt is
\* the greatest createdAt of those messages; no two items of a response have
\* the same sessionId.
C9_ItemsSummariseWholeSessions ==
  Answered =>
    \A i \in 1..Len(resp.items) :
      LET it == resp.items[i]
          msgs == {m \in BagToSet(store) : m.sessionId = it.sessionId}
      IN /\ it.messageCount = MessageCount(store, it.sessionId)
         /\ it.messageCount >= 1
         /\ \E m \in msgs : CreatedAtIso(m) = it.lastMessageAt
         /\ \A m \in msgs : CreatedAtIso(m) <= it.lastMessageAt
         /\ \A j \in 1..Len(resp.items) :
              j # i => resp.items[j].sessionId # it.sessionId

C9_Witness ==
  /\ Answered
  /\ ReqSearch.defined
  /\ Len(resp.items) >= 2
  /\ \E i \in 1..Len(resp.items) :
       /\ resp.items[i].messageCount >= 2
       /\ Cardinality({m \in BagToSet(store) :
                         m.sessionId = resp.items[i].sessionId}) = 1

Range(seq) == {seq[i] : i \in 1..Len(seq)}

\* C10: a traversal with a search s of at least 3 characters returns a stored
\* session exactly when its sessionId starts with s, letters compared without
\* regard to case and '%', '_' and backslash standing for themselves.
C10_TraversalReturnsPrefixMatches ==
  (/\ Answered /\ hist.fromStart /\ hist.fixed /\ ~resp.nextCursor.defined
   /\ ReqSearch.defined /\ Len(ReqSearch.text) >= MIN_SEARCH_LENGTH)
    => \A s \in Sessions(store) :
         s \in Range(ItemIds(hist.pages)) <=> StartsWith(s, ReqSearch.text)

\* the sessions the WHERE clause of a search keeps are those whose sessionId
\* starts with the search text: what C10 says of the filter alone, whatever
\* the paging does
FilterSelectsPrefixMatches ==
  (req.sent /\ ReqSearch.defined /\ Len(ReqSearch.text) >= MIN_SEARCH_LENGTH)
    => {r.session_id : r \in SessionStats(store, ReqSearch)}
         = Filtered(store, ReqSearch)

\* C7: in the scenario, the request with limit 2 and no filter returns
\* [C, B] with nextCursor {T5, "B"}, and the request with that cursor returns
\* [A] and no nextCursor.
C7_ScenarioPages ==
  /\ (Answered /\ req.kind = "first" /\ ReqLimit = 2 /\ ~ReqSearch.defined)
       => /\ resp.items =
               <<[sessionId |-> SessionC, messageCount |-> 2,
                  lastMessageAt |-> ToDate(MaxCreatedAt(store, SessionC))],
                 [sessionId |-> SessionB, messageCount |-> 1,
                  lastMessageAt |-> ToDate(MaxCreatedAt(store, SessionB))]>>
          /\ resp.nextCursor =
               Cursor(ToDate(MaxCreatedAt(store, SessionB)), SessionB)
  /\ (/\ Answered /\ req.kind = "next" /\ hist.fromStart
      /\ ReqLimit = 2 /\ ~ReqSearch.defined)
       => /\ resp.items =
               <<[sessionId |-> SessionA, messageCount |-> 3,
                  lastMessageAt |-> ToDate(MaxCreatedAt(store, SessionA))]>>
          /\ ~resp.nextCursor.defined

\* the characters of a text that are not blanks
NonBlank(text) == SelectSeq(text, LAMBDA c : c # " ")

\* the length of the search of the request in the server once trimmed, 0 when
\* there is none
TrimmedSearchLength ==
  IF srv.params.search.defined THEN Len(NonBlank(srv.params.search.text)) ELSE 0

\* the request in the server has been answered by its route handler
Handled == srv.pc = "done" /\ srv.handler = 1

\* C11: a list request whose trimmed search has 1 or 2 characters is answered
\* 400 without a store query; with 3 or more it is accepted (the store is
\* queried, the answer is no 400); with no search, an empty or a blank one it
\* is accepted and its page is the page of the unfiltered sessions.
C11_ShortSearchRejected ==
  srv.route = "list" =>
    /\ TrimmedSearchLength \in 1..(MIN_SEARCH_LENGTH - 1)
         => /\ srv.queries = 0
            /\ Handled => srv.status = 400
    /\ (Handled /\ TrimmedSearchLength \notin 1..(MIN_SEARCH_LENGTH - 1))
         => /\ srv.queries = 1
            /\ srv.status # 400
    /\ (/\ Handled /\ TrimmedSearchLength = 0 /\ srv.status = 200
        /\ ~srv.params.cursorLastMessageAt.defined)
         => ItemIds(srv.body) =
              Ids(Take(Canonical(Keys(store, Undefined)),
                       parseListLimit(srv.params.limit)))

\* a search of four characters, two once trimmed, has been rejected
C11_Witness ==
  /\ srv.route = "list"
  /\ Handled
  /\ srv.params.search.defined
  /\ Len(srv.params.search.text) >= MIN_SEARCH_LENGTH
  /\ TrimmedSearchLength = 2
  /\ srv.status = 400
  /\ srv.queries = 0
  /\ store # EmptyBag

\* the integers a limit text of the model may denote
LimitValues == (0 - 1)..(LIST_MAX_LIMIT + 1)

\* the text is the decimal writing of an integer
IsIntegerText(text) == \E n \in LimitValues : NumberText(n) = text
IntegerOf(text) == CHOOSE n \in LimitValues : NumberText(n) = text

\* the text has no number in it: it is empty or starts with a letter
IsNonNumeric(text) == text = <<>> \/ ~(IsDigit(Head(text)) \/ Head(text) \in {"-", "+", " "})

Clamp(n) ==
  IF n < 1 THEN 1 ELSE IF n > LIST_MAX_LIMIT THEN LIST_MAX_LIMIT ELSE n

\* C12: whatever the raw limit, the effective limit lies in 1..200; it is the
\* integer clamped into [1, 200] when the raw limit is an integer, 50 when it
\* is absent or not numeric; a page has at most that many items and carries
\* nextCursor exactly when it has that many (and its last lastMessageAt is not
\* null).
C12_LimitClamped ==
  srv.route = "list" =>
    LET raw == srv.params.limit
        limit == parseListLimit(raw)
        n == Len(srv.body)
    IN /\ limit \in 1..LIST_MAX_LIMIT
       /\ ~raw.defined => limit = LIST_DEFAULT_LIMIT
       /\ (raw.defined /\ IsNonNumeric(raw.text)) => limit = LIST_DEFAULT_LIMIT
       /\ (raw.defined /\ IsIntegerText(raw.text))
            => limit = Clamp(IntegerOf(raw.text))
       /\ (Handled /\ srv.status = 200)
            => /\ n <= limit
               /\ ~srv.params.cursorLastMessageAt.defined
                    => n = Min(limit,
                               Cardinality(Filtered(store,
                                 EffectiveSearch(srv.params.search))))
               /\ srv.nextCursor.defined
                    <=> (n = limit /\ srv.body[n].lastMessageAt # Null)

\* the limit text "0" has given a page of one session out of two, with a
\* nextCursor
C12_Witness ==
  /\ srv.route = "list"
  /\ Handled
  /\ srv.status = 200
  /\ srv.params.limit = Str(<<"0">>)
  /\ Cardinality(Sessions(store)) = 2
  /\ Len(srv.body) = 1
  /\ srv.nextCursor.defined

\* the cursor of the request in the server: its timestamp is missing or is no
\* date
CursorTimestampUnusable ==
  \/ ~srv.params.cursorLastMessageAt.defined
  \/ srv.params.cursorLastMessageAt.ms = NaN

\* the request in the server carries a cursor parameter
CursorGiven ==
  srv.params.cursorLastMessageAt.defined \/ srv.params.cursorSessionId.defined

\* its timestamp is a date and its session id is missing or empty
CursorTimestampOnly ==
  /\ ~CursorTimestampUnusable
  /\ \/ ~srv.params.cursorSessionId.defined
     \/ srv.params.cursorSessionId.text = <<>>

\* the first page of the request in the server, by session ids
FirstPageIds ==
  Ids(Take(Canonical(Keys(store, EffectiveSearch(srv.params.search))),
           parseListLimit(srv.params.limit)))

\* C13: a list request whose cursor has no timestamp, a timestamp that is no
\* date, or a timestamp without session id is answered like a request without
\* cursor: with the first page in canonical order, never with a validation
\* error.
C13_PartialCursorIsNoCursor ==
  (/\ srv.route = "list" /\ Handled /\ CursorGiven
   /\ CursorTimestampUnusable \/ CursorTimestampOnly)
    => /\ srv.status # 400
       /\ srv.status = 200 => ItemIds(srv.body) = FirstPageIds

\* C13 as the code has it: a cursor whose timestamp is missing or no date is
\* no cursor, whatever its session id, and the answer is the first page; a
\* timestamp t that is a date, given without session id, is a cursor on the
\* timestamp alone, and the answer is the first `limit` sessions, in
\* canonical order, among those with lastMessageAt < t; neither is a
\* validation error.
C13_TimestampOnlyCursor ==
  (srv.route = "list" /\ Handled /\ CursorGiven)
    => /\ CursorTimestampUnusable
            => /\ srv.status # 400
               /\ srv.status = 200 => ItemIds(srv.body) = FirstPageIds
       /\ CursorTimestampOnly
            => /\ srv.status # 400
               /\ srv.status = 200
                    => ItemIds(srv.body) =
                         Ids(Take(Canonical(
                               {k \in Keys(store, EffectiveSearch(srv.params.search)) :
                                  /\ k.ts # Null
                                  /\ k.ts < ToTimestamp(srv.params.cursorLastMessageAt.ms)}),
                             parseListLimit(srv.params.limit)))

\* a timestamp without session id has kept the newest session off the page
C13_Witness ==
  /\ srv.route = "list"
  /\ Handled
  /\ srv.status = 200
  /\ CursorTimestampOnly
  /\ Len(srv.body) = 1
  /\ ItemIds(srv.body) # FirstPageIds

\* the filtered sessions that were left to return when the latest request of
\* a traversal was made: all of them for a first page, those after the last
\* session of the page before for a following page
Remaining ==
  IF req.kind = "first" THEN Keys(store, ReqSearch)
  ELSE {k \in Keys(store, ReqSearch) : KeyBefore(hist.prevBoundary, k)}

\* C14: on a fixed store, a page requested when exactly `limit` sessions
\* remain is full and carries nextCursor; the request with that cursor, for
\* which nothing remains, returns no items and no nextCursor.
C14_ExactLimitThenEmptyPage ==
  (Answered /\ hist.fromStart /\ hist.fixed /\ req.kind \in {"first", "next"})
    => /\ Cardinality(Remaining) = ReqLimit
            => /\ Len(resp.items) = ReqLimit
               /\ resp.nextCursor.defined
       /\ (req.kind = "next" /\ Remaining = {})
            => /\ resp.items = <<>>
               /\ ~resp.nextCursor.defined

\* the request is a list request with category flags that was answered 200
CategoryAnswered ==
  /\ req.sent
  /\ req.kind \in {"category", "categoryNext"}
  /\ resp.status = 200

Underscores(sid) == Cardinality({i \in 1..Len(sid) : sid[i] = "_"})

C16_NoFilterMatchesAll ==
  (Answered /\ hist.fromStart /\ hist.fixed /\ ~resp.nextCursor.defined)
    => /\ ~ReqSearch.defined
            => Range(ItemIds(hist.pages)) = Sessions(store)
       /\ \A s \in Range(ItemIds(hist.pages)) :
            /\ MessageCount(store, s) >= 1
            /\ ReqSearch.defined => StartsWith(s, ReqSearch.text)

\* the predicate without the traversal: the rows the query of a request
\* without a search groups are the sessions that have a stored message
NoFilterSelectsAll ==
  (req.sent /\ ~ReqSearch.defined)
    => {r.session_id : r \in SessionStats(store, ReqSearch)} = Sessions(store)

\* the latest request is a summary request that was answered 200
SummaryAnswered == req.sent /\ req.kind = "summary" /\ resp.status = 200

\* preview and type of every summary are those of one stored message of the
\* session whose createdAt is the session's greatest
LastFieldsFromOneLastMessage ==
  SummaryAnswered =>
    \A i \in 1..Len(resp.items) :
      \E m \in BagToSet(store) :
        /\ m.sessionId = resp.items[i].sessionId
        /\ m.createdAt = MaxCreatedAt(store, m.sessionId)
        /\ m.content = resp.items[i].lastMessagePreview
        /\ m.type = resp.items[i].lastMessageType

\* the same summary request again on the same store gives every session it
\* returns again the preview and type it gave before
RepeatedSummaryKeepsLastMessage ==
  (SummaryAnswered /\ store' = store /\ req' = req /\ resp'.status = 200)
    => \A i \in 1..Len(resp.items), j \in 1..Len(resp'.items) :
         resp.items[i].sessionId = resp'.items[j].sessionId
           => /\ resp.items[i].lastMessagePreview
                   = resp'.items[j].lastMessagePreview
              /\ resp.items[i].lastMessageType = resp'.items[j].lastMessageType

\* C17: in a chat summary lastMessagePreview and lastMessageType are taken
\* from one and the same message, whose createdAt is the session's maximum,
\* and repeating the query on an unchanged store chooses the same message.
C17_LastMessageFromOneStableMessage ==
  [][LastFieldsFromOneLastMessage' /\ RepeatedSummaryKeepsLastMessage]_vars

\* the first half on its own
OneLastMessageAlways == [][LastFieldsFromOneLastMessage']_vars
\* the second half on its own
RepeatedSummaryStableAlways == [][RepeatedSummaryKeepsLastMessage]_vars

\* a message as the messages endpoint gives it
MessageItem(m) ==
  [sessionId |-> m.sessionId, createdAt |-> CreatedAtIso(m),
   payload |-> [content |-> m.content, type |-> m.type]]

\* the stored messages of the session the request names
RequestedMessages ==
  {m \in BagToSet(store) : m.sessionId = srv.params.sessionId.text}

\* the request reached the messages handler and its query was answered
MessagesAnswered ==
  /\ srv.pc = "done" /\ srv.handler = 1
  /\ srv.route = "messages" /\ srv.status # 500

\* C18: the messages endpoint answers 404 exactly when the store holds no
\* message of the session; otherwise it answers with every message of the
\* session, as many times as it is stored, and no other, by ascending
\* createdAt.  The list endpoint never answers 404: with nothing to list it
\* answers 200 with empty items.
C18_NotFoundIffNoMessages ==
  /\ MessagesAnswered =>
       /\ srv.status \in {200, 404}
       /\ srv.status = 404 <=> RequestedMessages = {}
       /\ srv.status = 200 =>
            /\ \A i \in 1..Len(srv.body) :
                 \E m \in RequestedMessages : srv.body[i] = MessageItem(m)
            /\ \A m \in RequestedMessages :
                 Cardinality({i \in 1..Len(srv.body) : srv.body[i] = MessageItem(m)})
                   = SumCopies(store, {n \in RequestedMessages :
                                         MessageItem(n) = MessageItem(m)})
            /\ \A i \in 1..Len(srv.body), j \in 1..Len(srv.body) :
                 i < j => srv.body[i].createdAt <= srv.body[j].createdAt
  /\ (Handled /\ srv.route = "list") =>
       /\ srv.status # 404
       /\ (srv.status # 500 /\ Filtered(store, EffectiveSearch(srv.params.search)) = {})
            => srv.status = 200 /\ srv.body = <<>>

\* two messages of one session from different milliseconds returned while
\* another session is stored too
C18_Witness ==
  /\ MessagesAnswered
  /\ srv.status = 200
  /\ Len(srv.body) = 2
  /\ srv.body[1].createdAt < srv.body[2].createdAt
  /\ Cardinality(Sessions(store)) = 2

\* C19: when the store query of a list request fails the caller gets HTTP
\* 500 with no items and no nextCursor, the store was queried once and not
\* again, and one response was sent; no request is ever answered twice or
\* queries the store twice.
C19_QueryFailureIsServiceError ==
  /\ srv.queries <= 1
  /\ srv.responses <= 1
  /\ (srv.failed /\ srv.route = "list") =>
       /\ srv.pc = "done"
       /\ srv.status = 500
       /\ srv.body = <<>>
       /\ ~srv.nextCursor.defined
       /\ srv.queries = 1
       /\ srv.responses = 1

\* the query of a list request on a store with sessions to return has failed
C19_Witness ==
  /\ srv.failed
  /\ srv.route = "list"
  /\ srv.status = 500
  /\ Filtered(store, EffectiveSearch(srv.params.search)) # {}

\* the Authorization header is "Bearer " followed by a token that is not
\* blank
CarriesBearerToken ==
  /\ srv.authorization.defined
  /\ Len(srv.authorization.text) > 7
  /\ SubSeq(srv.authorization.text, 1, 7) = <<"B", "e", "a", "r", "e", "r", " ">>
  /\ \E i \in 8..Len(srv.authorization.text) : srv.authorization.text[i] # " "

\* the email's last characters are the allowed domain, letters compared
\* without regard to case
EmailEndsWithAllowedDomain ==
  /\ srv.tokeninfo.email.defined
  /\ LET email == srv.tokeninfo.email.text
         n == Len(AllowedDomain)
     IN /\ Len(email) >= n
        /\ \A i \in 1..n :
             Lower(email[Len(email) - n + i]) = Lower(AllowedDomain[i])

\* what the claim asks of a request that reaches a handler
Authenticated ==
  /\ CarriesBearerToken
  /\ srv.tokeninfo.asked
  /\ srv.tokeninfo.ok
  /\ srv.tokeninfo.aud = GoogleClientId
  /\ srv.tokeninfo.email_verified = Str(<<"t", "r", "u", "e">>)
  /\ EmailEndsWithAllowedDomain

\* requireAuth has dealt with the request
PastAuth == srv.pc \in {"handler", "query", "done"}

OneUnderscorePositions(list) ==
  {j \in 1..Len(list) : Underscores(list[j].sessionId) = 1}

\* d is the items of list at the positions pos, in the order of list
ItemsAtInOrder(d, list, pos) ==
  /\ Len(d) = Cardinality(pos)
  /\ \A j \in pos : d[Cardinality({k \in pos : k <= j})] = list[j]

\* C21: with the WhatsApp toggle on the displayed chats are exactly the loaded
\* items whose sessionId has two underscore-delimited segments, in their
\* loaded order; with it off they are all loaded items; a step that flips the
\* toggle changes neither the loaded list nor the pagination cursor.
C21_ToggleFiltersDisplayOnly ==
  [][ui'.open =>
       /\ IF ui'.showOnlyWhatsapp
          THEN ItemsAtInOrder(ui'.displayedChats, ui'.chatList,
                              OneUnderscorePositions(ui'.chatList))
          ELSE ui'.displayedChats = ui'.chatList
       /\ ui'.showOnlyWhatsapp # ui.showOnlyWhatsapp =>
            /\ ui'.chatList = ui.chatList
            /\ ui'.listCursor = ui.listCursor]_vars

\* the toggle is on over a loaded list of a WhatsApp session and another
\* session, with a cursor to a next page
C21_Witness ==
  /\ ui.open /\ ui.showOnlyWhatsapp
  /\ ui.listCursor.defined
  /\ Len(ui.chatList) = 2 /\ Len(ui.displayedChats) = 1

\* C22: after a sign-out, by the button or by an unauthorized response, and
\* until a credential is received, the token in React state and in the auth
\* module is null, localStorage holds no entry, and getAuthHeaders gives no
\* Authorization header.
C22_SignOutClearsToken ==
  (ui.open /\ ui.signedOut) =>
     /\ ui.authToken = NoToken
     /\ ui.moduleToken = NoToken
     /\ ui.stored = NoToken
     /\ getAuthHeaders(ui) = {}

\* a client is signed out while a list request that carries the token is
\* still in flight
C22_Witness ==
  /\ ui.open /\ ui.signedOut
  /\ ui.stored = NoToken
  /\ \E rq \in ui.listRequests : rq.headers # {}

\* C23: a press of Refresh requests summaries for the term of the last
\* search that was executed, whatever the search input holds, and Refresh
\* cannot be pressed before a search has been run.
C23_RefreshRerunsLastSearch ==
  (ui.open /\ ui.refresh.pressed) =>
     /\ ui.refresh.last.defined
     /\ ui.refresh.requested = ui.refresh.last

\* C24: a traversal that follows nextCursor never emits a sessionId on two
\* pages, whatever messages are appended between its requests, to sessions
\* before or after the cursor.
C24_NoSessionOnTwoPages ==
  \A i, j \in 1..Len(hist.pages) :
     hist.pages[i].sessionId = hist.pages[j].sessionId => i = j

\* a traversal from the first page has fetched a further page after an
\* append that put a session at or before the cursor
C24_Witness ==
  /\ hist.fromStart
  /\ hist.crossed = "other"
  /\ Len(hist.pages) >= 2

\* the cursor position c1 is strictly after the position of the request's
\* cursor in canonical order
StrictlyAfterRequestCursor(c1) ==
  \/ c1.lastMessageAt < req.cursorLastMessageAt.ms
  \/ /\ c1.lastMessageAt = req.cursorLastMessageAt.ms
     /\ req.cursorSessionId.defined
     /\ TextLess(c1.sessionId, req.cursorSessionId.text)

\* C25: a nextCursor is strictly after the cursor of the request it answers,
\* and on a fixed store with N matching sessions a traversal from the first
\* page that follows nextCursor has its response without nextCursor after at
\* most floor(N / limit) + 1 requests.
C25_CursorAdvancesAndTraversalEnds ==
  (req.sent /\ resp.status = 200) =>
     /\ (tryParseIsoDate(req.cursorLastMessageAt).defined /\ resp.nextCursor.defined)
          => StrictlyAfterRequestCursor(resp.nextCursor)
     /\ (hist.fromStart /\ hist.fixed) =>
          hist.requests <=
            (Cardinality(Filtered(store, ReqSearch)) \div ReqLimit)
              + (IF resp.nextCursor.defined THEN 0 ELSE 1)

\* a traversal over a fixed store of two sessions with limit 1 ends with its
\* third request, an empty page
C25_Witness ==
  /\ hist.fromStart /\ hist.fixed
  /\ resp.status = 200 /\ ~resp.nextCursor.defined
  /\ ReqLimit = 1
  /\ Cardinality(Filtered(store, ReqSearch)) = 2
  /\ hist.requests = 3

\* no list request of the client is in flight
ListSettled == ui.open /\ ui.listRequests = {}

\* C26: once no list request is in flight and the last load succeeded, the
\* chat list holds only items returned for the applied search, no sessionId
\* twice, and the stored cursor is the nextCursor of the latest request
\* issued.
C26_SettledListIsOfAppliedSearch ==
  (ListSettled /\ ~ui.listError) =>
     /\ \A i \in 1..Len(ui.listSearches) : ui.listSearches[i] = ui.appliedSearch
     /\ \A i, j \in 1..Len(ui.chatList) :
          ui.chatList[i].sessionId = ui.chatList[j].sessionId => i = j
     /\ ui.cursorRequest = ui.issued

\* no messages fetch that could still set the messages is in flight
MessagesSettled(s) == \A f \in s.messageFetches : f.isCancelled

\* C27: the messages are only set from the response to the fetch of the
\* selected session, a response or error of a fetch made for an earlier
\* selection changes nothing, and once the fetches have settled the messages
\* shown are those of selectedSessionId, none when nothing is selected.
C27_MessagesAreOfSelection ==
  [][ui'.open =>
       /\ (ui.open /\ ui'.messages # ui.messages /\ ui'.messages # <<>>) =>
            \A i \in 1..Len(ui'.messages) :
               ui'.messages[i].sessionId = ui.selectedSessionId
       /\ MessagesSettled(ui') =>
            /\ \A i \in 1..Len(ui'.messages) :
                 ui'.messages[i].sessionId = ui'.selectedSessionId
            /\ ui'.selectedSessionId = NullId => ui'.messages = <<>>]_vars

\* the messages of the selected session are shown while the fetch made for
\* the selection before it is still in flight, cancelled
C27_Witness ==
  /\ ui.open /\ ui.listRequests = {}
  /\ ui.messages # <<>>
  /\ MessagesSettled(ui)
  /\ \E f \in ui.messageFetches : f.sessionId # ui.selectedSessionId

\* C28: after a sign-out the chat list, the cursor, the selected session and
\* the messages are empty and stay empty until a new token is set, also when
\* responses to requests sent before the sign-out arrive afterwards.
C28_SignedOutStateStaysEmpty ==
  (ui.open /\ ui.signedOut) =>
     /\ ui.chatList = <<>>
     /\ ~ui.listCursor.defined
     /\ ui.selectedSessionId = NullId
     /\ ui.messages = <<>>

\* the session ids of a list of chats
ChatIds(list) == {list[i].sessionId : i \in 1..Len(list)}

\* C29: when the effects have run and no list request is in flight,
\* selectedSessionId is null exactly when no chat is displayed and is
\* otherwise the sessionId of a displayed chat; the response to a reset load
\* whose page holds the selected session leaves the selection as it was.
C29_SelectionIsADisplayedChat ==
  [][ui'.open =>
       /\ ui'.listRequests = {} =>
            /\ ui'.selectedSessionId = NullId <=> ui'.displayedChats = <<>>
            /\ ui'.selectedSessionId # NullId =>
                 ui'.selectedSessionId \in ChatIds(ui'.displayedChats)
       /\ (/\ ui.open
           /\ \E rq \in ui.listRequests :
                rq.reset /\ ui'.listRequests = ui.listRequests \ {rq}
           /\ ui.selectedSessionId # NullId
           /\ ui.selectedSessionId \in ChatIds(ui'.chatList))
            => ui'.selectedSessionId = ui.selectedSessionId]_vars

\* the second chat of the list stays selected after the reset load of a
\* search whose first page holds it
C29_Witness ==
  /\ ListSettled
  /\ ui.appliedSearch = <<"a", "b", "_">>
  /\ Len(ui.displayedChats) = 2
  /\ ui.selectedSessionId = ui.displayedChats[2].sessionId
  /\ ui.issued = 3

\* C30: listLoading is true exactly while a list request is in flight, and a
\* Load more request (one with a cursor, not a reset) is never started while
\* another list request is pending.
C30_ListLoadingIffRequestInFlight ==
  [][ui'.open =>
       /\ ui'.listLoading <=> ui'.listRequests # {}
       /\ (ui.open /\ \E rq \in ui'.listRequests \ ui.listRequests : ~rq.reset)
            => ui.listRequests = {}]_vars

\* the server answers the list request rq with 400, search too short
RejectedAsTooShort(rq) ==
  LET p == ListParamsOf(rq)
  IN \E r \in ListResponses(store, p.limit, p.search, p.cursorLastMessageAt,
                            p.cursorSessionId) : r.status = 400

\* C31: appliedSearch is always empty or a trimmed text of at least 3
\* characters, a shorter submission sets the feedback and leaves
\* appliedSearch, the chat list and the cursor as they were, and no list
\* request the client has sent is one the server rejects as too short.
C31_AppliedSearchIsEmptyOrLongEnough ==
  [][ui'.open =>
       /\ \/ ui'.appliedSearch = <<>>
          \/ /\ Trim(ui'.appliedSearch) = ui'.appliedSearch
             /\ Len(ui'.appliedSearch) >= MIN_SEARCH_LENGTH
       /\ (ui.open /\ ui'.searchFeedback /\ ~ui.searchFeedback) =>
            /\ ui'.appliedSearch = ui.appliedSearch
            /\ ui'.chatList = ui.chatList
            /\ ui'.listCursor = ui.listCursor
            /\ ui'.listRequests = ui.listRequests
       /\ \A rq \in ui'.listRequests : ~RejectedAsTooShort(rq)]_vars

\* a submission of two characters has set the feedback over the loaded list
\* of an applied search
C31_Witness ==
  /\ ui.open /\ ui.searchFeedback
  /\ Trim(ui.searchInput) = <<"a", "b">>
  /\ ui.appliedSearch = <<"a", "b", "_">>
  /\ ui.chatList # <<>>

\* C32: the timestamp a follow-up list request compares against the store is
\* the stored MAX(created_at) of the last item of the page before it: written
\* into nextCursor, sent back by the client and parsed again, it is the value
\* the store holds.
C32_CursorKeepsStoredTimestamp ==
  (req.sent /\ req.kind = "next" /\ hist.prevBoundary.defined) =>
     /\ tryParseIsoDate(req.cursorLastMessageAt).defined
     /\ ToTimestamp(tryParseIsoDate(req.cursorLastMessageAt).ms)
          = hist.prevBoundary.ts

\* C33: after any sequence of SIGINT and SIGTERM signals the pool is only
\* disconnected once a close callback of the HTTP server has fired, the
\* process then eventually exits whether or not disconnect succeeds, and its
\* exit code is 1 if the server close reported an error and 0 otherwise.
C33_ShutdownOrderAndExitCode ==
  /\ [](proc.disconnects > 0 => proc.closeFired)
  /\ proc.closeFired ~> proc.exited
  /\ [](proc.exited =>
          /\ proc.exitCode \in {0, 1}
          /\ proc.exitCode = 1 <=> proc.closeReportedError)

====
